---- MODULE Spec2Model ----
(***************************************************************************)
(* A model of blackjack.py: the shoe, the hand predicates, the round       *)
(* engine (Game.process_round and its helpers), the shoe loop              *)
(* (Game.play_entire_shoe), the simulation loop and the decision learner   *)
(* (QLearner).                                                             *)
(*                                                                         *)
(* A card is its CardValue number (1 = Ace .. 13 = King); suits play no    *)
(* part in any decision of the program.  random.shuffle is modelled by     *)
(* choosing the value of every card at the moment it leaves the front of   *)
(* the shoe; the shoe itself is the number of cards left in it.            *)
(***************************************************************************)
EXTENDS Integers, Sequences, FiniteSets, TLC

(***************************************************************************)
(* Program constants.                                                      *)
(***************************************************************************)
CARDS_PER_DECK == 52
MAX_RESPLIT == 4
MAX_TABLE_SPOTS == 7
DEALER_HITS_SOFT_17 == FALSE
TEN_CARDS == {10, 11, 12, 13}
DEFAULT_BET == 100
DEFAULT_STAKE == 100000
Q_LEARN_GAMMA == 1
NUMBER_SHOES_IN_SIMULATION == 1000000
SIM_DECKS == 6

(***************************************************************************)
(* Bounds of the model.                                                    *)
(***************************************************************************)
\* the simulation is followed until its shoes have dealt this many cards:
\* at the table of one spot, and at the tables of more spots
MaxCards == 9
MaxCardsTwoSpots == 8
\* the cut card of the round engine's shoe sits this many cards below the
\* top of the burned shoe (the cut_card_pos argument of Shoe)
CutSlack == 5
\* largest request the shoe driver of SpecShoe makes of deal_cards
MaxDeal == 2
\* SpecHand builds every hand of up to MaxHandCards cards, and the hands of
\* aces only of up to MaxAces cards
MaxHandCards == 3
MaxAces == 22

\* the card values a deal may turn up
DealtValues == {1, 10}

\* the numbers of the CardValue members, ACE = 1 .. KING = 13
CardValues == 1..13

\* the players of the simulation, and the tables played: the spots each
\* player is given (the player_spot_data argument of Game)
PlayerNames == {"John", "Katy"}
Tables ==
    { << <<"John", 1>> >>,
      << <<"John", 1>>, <<"Katy", 1>> >>,
      << <<"John", 3>>, <<"Katy", 4>> >>,
      << <<"John", 4>>, <<"Katy", 4>> >> }

(***************************************************************************)
(* Cards and hands.                                                        *)
(***************************************************************************)
is_paint(c) == c \in {10, 11, 12, 13}

is_ace(c) == c = 1

as_char(v) ==
    CASE v = 1 -> "A" [] v = 2 -> "2" [] v = 3 -> "3" [] v = 4 -> "4"
      [] v = 5 -> "5" [] v = 6 -> "6" [] v = 7 -> "7" [] v = 8 -> "8"
      [] v = 9 -> "9" [] v = 10 -> "T" [] v = 11 -> "J" [] v = 12 -> "Q"
      [] v = 13 -> "K"

\* c.value.value if c.value.value not in TEN_CARDS else 10
CardPoints(c) == IF c \notin TEN_CARDS THEN c ELSE 10

RECURSIVE LowSum(_)
LowSum(cards) ==
    IF cards = <<>> THEN 0 ELSE CardPoints(Head(cards)) + LowSum(Tail(cards))

HasAce(cards) == \E i \in 1..Len(cards) : is_ace(cards[i])

\* is_soft with < 11 for <= 11
is_soft_below_eleven(cards) == HasAce(cards) /\ LowSum(cards) < 11

is_soft(cards) == HasAce(cards) /\ LowSum(cards) <= 11

\* the bust test that never finds a hand bust
is_bust_never(cards) == FALSE

is_bust(cards) == LowSum(cards) > 21

\* is_bj that knows the ace only as the first card
is_bj_ace_first(cards) == is_ace(cards[1]) /\ is_paint(cards[2])

is_bj(cards) ==
    \/ is_ace(cards[1]) /\ is_paint(cards[2])
    \/ is_paint(cards[1]) /\ is_ace(cards[2])

\* get_sum that still counts an ace high on a low sum of 12
get_sum_promotes_at_twelve(cards) ==
    LET value == LowSum(cards)
    IN  IF value <= 12 /\ (1 \in {cards[i] : i \in 1..Len(cards)})
        THEN value + 10
        ELSE value

get_sum(cards) ==
    LET value == LowSum(cards)
    IN  IF value <= 11 /\ (1 \in {cards[i] : i \in 1..Len(cards)})
        THEN value + 10
        ELSE value

is_pair(cards) == cards[1] = cards[2]

\* PlayerHand.__init__; id stands for the identity of the object, which
\* list.remove compares
PlayerHand(cards, bet, id) ==
    [cards |-> cards, bet |-> bet, is_doubled |-> FALSE,
     pair_decisions |-> <<>>, double_decisions |-> <<>>,
     hit_stand_decisions |-> <<>>, id |-> id]

\* the split that gives both hands the first of the new cards
split_deals_one_card_twice(hand, new_cards, id1, id2) ==
    << PlayerHand(<<hand.cards[1], new_cards[1]>>, hand.bet, id1),
       PlayerHand(<<hand.cards[2], new_cards[1]>>, hand.bet, id2) >>

\* PlayerHand.split: the two hands made of one card of the pair each
split(hand, new_cards, id1, id2) ==
    << PlayerHand(<<hand.cards[1], new_cards[1]>>, hand.bet, id1),
       PlayerHand(<<hand.cards[2], new_cards[2]>>, hand.bet, id2) >>

(***************************************************************************)
(* Decisions.                                                              *)
(***************************************************************************)
RECURSIVE JoinVals(_)
JoinVals(cards) ==
    IF cards = <<>> THEN ""
    ELSE (as_char(Head(cards)) \o "_") \o JoinVals(Tail(cards))

\* Decision.__get_key
Decision_get_key(cards, dealer_card) == JoinVals(cards) \o as_char(dealer_card)

\* the lookup key that puts the dealer's card first
QLearner_get_key_dealer_first(cards, dealer_card) ==
    (as_char(dealer_card) \o "_") \o JoinVals(cards)

\* QLearner.__get_key
QLearner_get_key(cards, dealer_card) == JoinVals(cards) \o as_char(dealer_card)

Decision(cards, dealer_card, value) ==
    [key |-> Decision_get_key(cards, dealer_card), value |-> value,
     size |-> Len(cards)]

EvaluatedDecision(decision, result, number_steps) ==
    [key |-> decision.key, value |-> decision.value, size |-> decision.size,
     result |-> result, number_discount_steps |-> number_steps]

EvaluateAll(decisions, reward, ncards) ==
    [i \in 1..Len(decisions) |->
        EvaluatedDecision(decisions[i], reward, ncards - decisions[i].size)]

\* process_decisions that takes every hand for a winner
process_decisions_always_won(hand, did_win, ql) ==
    LET reward == hand.bet
        n == Len(hand.cards)
    IN  [ql EXCEPT
           !.split_decisions = @ \o EvaluateAll(hand.pair_decisions, reward, n),
           !.double_decisions = @ \o EvaluateAll(hand.double_decisions, reward, n),
           !.hit_stand_decisions =
               @ \o EvaluateAll(hand.hit_stand_decisions, reward, n)]

\* PlayerHand.process_decisions: the learner with the hand's decisions
\* appended to its three pending lists
process_decisions(hand, did_win, ql) ==
    LET reward == IF did_win THEN hand.bet ELSE -hand.bet
        n == Len(hand.cards)
    IN  [ql EXCEPT
           !.split_decisions = @ \o EvaluateAll(hand.pair_decisions, reward, n),
           !.double_decisions = @ \o EvaluateAll(hand.double_decisions, reward, n),
           !.hit_stand_decisions =
               @ \o EvaluateAll(hand.hit_stand_decisions, reward, n)]

(***************************************************************************)
(* The shoe.                                                               *)
(***************************************************************************)
\* deal_cards with the cut test made strict
deal_cards_strict(s, number) ==
    [s EXCEPT !.ncards = @ - number,
              !.cut_card_out =
                  IF s.ncards - number < s.cut_card_pos THEN TRUE ELSE @]

\* Shoe.deal_cards on the shoe object: the cut test reads the count before
\* the cards are popped
deal_cards(s, number) ==
    [s EXCEPT !.ncards = @ - number,
              !.cut_card_out =
                  IF s.ncards - number <= s.cut_card_pos THEN TRUE ELSE @]

\* Shoe.__init__: decks full decks, shuffled, one card burned
Shoe(decks, cut_card_pos) ==
    deal_cards([decks |-> decks, ncards |-> decks * CARDS_PER_DECK,
                cut_card_pos |-> cut_card_pos, cut_card_out |-> FALSE], 1)

(***************************************************************************)
(* The decision learner.                                                   *)
(***************************************************************************)
EmptyTable == [k \in {} |-> 0]

\* QLearner.__init__ (the insurance members are never used by the program)
QLearner ==
    [split_decisions |-> <<>>, double_decisions |-> <<>>,
     hit_stand_decisions |-> <<>>,
     split_decision_totals |-> EmptyTable,
     double_decision_totals |-> EmptyTable,
     hit_stand_decision_totals |-> EmptyTable,
     split_decision_values |-> EmptyTable,
     double_decision_values |-> EmptyTable,
     hit_stand_decision_values |-> EmptyTable]

\* reading totals[key] of a defaultdict(lambda: [0, 0, 0, 0])
TotalsAt(totals, key) ==
    IF key \in DOMAIN totals THEN totals[key] ELSE <<0, 0, 0, 0>>

RECURSIVE Pow(_, _)
Pow(g, n) == IF n <= 0 THEN 1 ELSE g * Pow(g, n - 1)

\* the totals update whose false branch counts at the true branch's index
FoldTotals_wrong_count(totals, decision) ==
    LET old == TotalsAt(totals, decision.key)
        amount == decision.result * Pow(Q_LEARN_GAMMA, decision.number_discount_steps)
        new == IF decision.value
               THEN <<old[1] + 1, old[2] + amount, old[3], old[4]>>
               ELSE <<old[1] + 1, old[2], old[3], old[4] + amount>>
    IN  (decision.key :> new) @@ totals

\* "update the totals": totals is [number true, total reward, number false,
\* total reward], here at indices 1..4
FoldTotals(totals, decision) ==
    LET old == TotalsAt(totals, decision.key)
        amount == decision.result * Pow(Q_LEARN_GAMMA, decision.number_discount_steps)
        new == IF decision.value
               THEN <<old[1] + 1, old[2] + amount, old[3], old[4]>>
               ELSE <<old[1], old[2], old[3] + 1, old[4] + amount>>
    IN  (decision.key :> new) @@ totals

\* the comparison of the averages with >= for >
AvgTrueGreater_or_equal(t) == t[2] * t[3] >= t[4] * t[1]

\* avg_true_result > avg_false_result for positive counts t[1], t[3]: the two
\* quotients of the code compare as the cross products do
AvgTrueGreater(t) == t[2] * t[3] > t[4] * t[1]

\* "if there is data for both choices, update the decision value": reading
\* old_val inserts a drawn default for a missing key, and the entry then holds
\* new_val whichever value was drawn
FoldValues(values, totals, key) ==
    LET t == TotalsAt(totals, key)
    IN  IF t[1] # 0 /\ t[3] # 0
        THEN (key :> AvgTrueGreater(t)) @@ values
        ELSE values

\* the lookup that draws a value for a missing key and does not keep it
ExploitLookup_draws_again(values, key) ==
    IF key \in DOMAIN values
    THEN {[ans |-> values[key], values |-> values]}
    ELSE {[ans |-> b, values |-> values] : b \in BOOLEAN}

\* "return self.split_decision_values[key]" on a defaultdict(lambda:
\* random.choice([True, False])): the boolean returned and the table
\* afterwards (a missing key gets a drawn default, which is stored)
ExploitLookup(values, key) ==
    IF key \in DOMAIN values
    THEN {[ans |-> values[key], values |-> values]}
    ELSE {[ans |-> b, values |-> (key :> b) @@ values] : b \in BOOLEAN}

\* the epsilon-greedy lookup in a table of decision values: the boolean
\* returned and the table afterwards (a missing key gets a drawn default)
GetDecisionValue(values, key) ==
    {[ans |-> b, values |-> values] : b \in BOOLEAN}
    \cup ExploitLookup(values, key)

get_split_decision_value(ql, cards, dealer_card) ==
    {[ans |-> o.ans, q |-> [ql EXCEPT !.split_decision_values = o.values]] :
        o \in GetDecisionValue(ql.split_decision_values,
                               QLearner_get_key(cards, dealer_card))}

get_double_decision_value(ql, cards, dealer_card) ==
    {[ans |-> o.ans, q |-> [ql EXCEPT !.double_decision_values = o.values]] :
        o \in GetDecisionValue(ql.double_decision_values,
                               QLearner_get_key(cards, dealer_card))}

get_hit_stand_decision_value(ql, cards, dealer_card) ==
    {[ans |-> o.ans, q |-> [ql EXCEPT !.hit_stand_decision_values = o.values]] :
        o \in GetDecisionValue(ql.hit_stand_decision_values,
                               QLearner_get_key(cards, dealer_card))}

(***************************************************************************)
(* Players.  The simulation creates both players with the Q_LEARN          *)
(* strategy; the BASIC tables are not modelled.                            *)
(***************************************************************************)
Player(money, strategy, takes_insurance) ==
    [money |-> money, strategy |-> strategy, takes_insurance |-> takes_insurance]

RandomChoice(ql) == {[ans |-> b, q |-> ql] : b \in BOOLEAN}

splits(player, cards, dealer_card, ql) ==
    IF player.strategy = "RANDOM" THEN RandomChoice(ql)
    ELSE get_split_decision_value(ql, cards, dealer_card)

doubles(player, cards, dealer_card, ql) ==
    IF player.strategy = "RANDOM" THEN RandomChoice(ql)
    ELSE get_double_decision_value(ql, cards, dealer_card)

hits(player, cards, dealer_card, ql) ==
    IF player.strategy = "RANDOM" THEN RandomChoice(ql)
    ELSE get_hit_stand_decision_value(ql, cards, dealer_card)

lose(player, amt) == [player EXCEPT !.money = @ - amt]

win(player, amt) == [player EXCEPT !.money = @ + amt]

get_bet_amount(player) == DEFAULT_BET

(***************************************************************************)
(* State.                                                                  *)
(***************************************************************************)
VARIABLES
    shoe,          \* the Shoe object: decks, ncards = len(cards), cut_card_pos, cut_card_out
    last_dealt,    \* how many cards the latest deal_cards call returned
    err,           \* "none", or the exception that ended the program
    players,       \* name -> Player object
    q,             \* the global QLearner object
    spots,         \* Game.spots: sequence of [player, hands]
    dealer_hand,   \* process_round's dealer_hand.cards
    pc,            \* position in the program
    si,            \* position of a loop over self.spots (1-based)
    hi,            \* position of a loop over spot.hands (1-based)
    stack,         \* pending __process_splitting calls, the current one first
    index_busted,  \* the index_busted list of the double and hit/stand loops
    ui,            \* position of an update loop over pending decisions
    round_number,  \* play_entire_shoe's round_number
    shoe_number,   \* shoes the simulation loop has started
    player_spot_data, \* the table the simulation plays: <<player, spots>> pairs
    cards_dealt,   \* cards that have left the shoes of the simulation so far
    card_limit,    \* the run is followed while cards_dealt <= card_limit
    card_values,   \* the card values the shoes of the run turn up
    hits_soft_17,  \* the value of the module's DEALER_HITS_SOFT_17
    arranged       \* the values of the cards at the front of the shoe, as far as the run fixes them

vars == <<shoe, last_dealt, err, players, q, spots, dealer_hand, pc, si, hi,
          stack, index_busted, ui, round_number, shoe_number, player_spot_data,
          cards_dealt, card_limit, card_values, hits_soft_17, arranged>>

\* the card sequences a deal of number cards can return: the cards at the
\* front of the shoe where the run fixes them, any value beyond
Deals(number) ==
    {cards \in [1..number -> card_values] :
        \A i \in 1..number : i <= Len(arranged) => cards[i] = arranged[i]}

\* dealer_hits that takes a card on every soft 17
dealer_hits_every_soft_17(cards) ==
    IF ~is_soft(cards) THEN get_sum(cards) < 17
    ELSE get_sum(cards) <= 17

\* DealerHand.dealer_hits, reading the module's DEALER_HITS_SOFT_17
dealer_hits(cards) ==
    IF ~is_soft(cards) THEN get_sum(cards) < 17
    ELSE IF hits_soft_17 THEN get_sum(cards) <= 17
    ELSE get_sum(cards) < 17

RECURSIVE SumSpots(_)
SumSpots(data) == IF data = <<>> THEN 0 ELSE Head(data)[2] + SumSpots(Tail(data))

RECURSIVE AssignSpots(_)
AssignSpots(data) ==
    IF data = <<>> THEN <<>>
    ELSE [i \in 1..Head(data)[2] |-> [player |-> Head(data)[1], hands |-> <<>>]]
         \o AssignSpots(Tail(data))

\* Game.__init__ past the capacity test: one spot per requested spot, bound
\* to its player in the order requested
GameSpots(data) == AssignSpots(data)

NumSpots == Len(spots)

\* the simulation's players: john takes insurance, katy does not
InitPlayers ==
    [n \in PlayerNames |-> Player(DEFAULT_STAKE, "Q_LEARN", n = "John")]

(***************************************************************************)
(* SpecShoe: the 6-deck shoe of the simulation with the default cut card   *)
(* (Shoe(6), cut_card_pos = 2 * CARDS_PER_DECK), driven by arbitrary       *)
(* deal_cards calls.                                                       *)
(***************************************************************************)
InitShoe ==
    /\ shoe = Shoe(SIM_DECKS, 2 * CARDS_PER_DECK)
    /\ last_dealt = 1
    /\ err = "none"
    /\ players = InitPlayers
    /\ q = QLearner
    /\ spots = <<>>
    /\ dealer_hand = <<>>
    /\ pc = "shoe_driver"
    /\ si = 1 /\ hi = 1 /\ ui = 1
    /\ stack = <<>> /\ index_busted = <<>>
    /\ round_number = 1
    /\ shoe_number = 1
    /\ player_spot_data = <<>>
    /\ cards_dealt = 1
    /\ card_limit = SIM_DECKS * CARDS_PER_DECK
    /\ card_values = DealtValues
    /\ hits_soft_17 = DEALER_HITS_SOFT_17
    /\ arranged = <<>>

\* a deal_cards call the shoe can serve
DealFromShoe ==
    /\ pc = "shoe_driver" /\ err = "none"
    /\ \E number \in 1..MaxDeal :
         /\ number <= shoe.ncards
         /\ shoe' = deal_cards(shoe, number)
         /\ last_dealt' = number
         /\ cards_dealt' = cards_dealt + number
    /\ UNCHANGED <<err, players, q, spots, dealer_hand, pc, si, hi, stack,
                   index_busted, ui, round_number, shoe_number, player_spot_data, card_limit, card_values, hits_soft_17, arranged>>

\* a deal_cards call for more cards than are left: the flag is set, the
\* cards that are left are popped, and popleft raises IndexError
DealEmptiesShoe ==
    /\ pc = "shoe_driver" /\ err = "none"
    /\ \E number \in 1..MaxDeal :
         /\ number > shoe.ncards
         /\ shoe' = [deal_cards(shoe, number) EXCEPT !.ncards = 0]
         /\ cards_dealt' = cards_dealt + shoe.ncards
    /\ err' = "IndexError"
    /\ UNCHANGED <<last_dealt, players, q, spots, dealer_hand, pc, si, hi,
                   stack, index_busted, ui, round_number, shoe_number,
                   player_spot_data, card_limit, card_values, hits_soft_17, arranged>>

NextShoe == DealFromShoe \/ DealEmptiesShoe

SpecShoe == InitShoe /\ [][NextShoe]_vars

(***************************************************************************)
(* SpecHand: a Hand object on its own, holding any cards: every hand of up *)
(* to MaxHandCards cards of any value, and the hands of aces only of up to *)
(* MaxAces cards.  The hand is kept in dealer_hand.                        *)
(***************************************************************************)
InitHand ==
    /\ shoe = [decks |-> 0, ncards |-> 0, cut_card_pos |-> 0, cut_card_out |-> FALSE]
    /\ last_dealt = 0
    /\ err = "none"
    /\ players = InitPlayers
    /\ q = QLearner
    /\ spots = <<>>
    /\ dealer_hand = <<>>
    /\ pc = "hand_driver"
    /\ si = 1 /\ hi = 1 /\ ui = 1
    /\ stack = <<>> /\ index_busted = <<>>
    /\ round_number = 1
    /\ shoe_number = 0
    /\ player_spot_data = <<>>
    /\ cards_dealt = 0
    /\ card_limit = 0
    /\ card_values = CardValues
    /\ hits_soft_17 = DEALER_HITS_SOFT_17
    /\ arranged = <<>>

\* hand.cards += [card], any card
HandTakesCard ==
    /\ pc = "hand_driver" /\ Len(dealer_hand) < MaxHandCards
    /\ \E c \in card_values : dealer_hand' = Append(dealer_hand, c)
    /\ UNCHANGED <<shoe, last_dealt, err, players, q, spots, pc, si, hi, stack,
                   index_busted, ui, round_number, shoe_number,
                   player_spot_data, cards_dealt, card_limit, card_values, hits_soft_17, arranged>>

\* hand.cards += [ace] on a longer hand of aces only
HandTakesAce ==
    /\ pc = "hand_driver"
    /\ Len(dealer_hand) >= MaxHandCards /\ Len(dealer_hand) < MaxAces
    /\ \A i \in 1..Len(dealer_hand) : is_ace(dealer_hand[i])
    /\ dealer_hand' = Append(dealer_hand, 1)
    /\ UNCHANGED <<shoe, last_dealt, err, players, q, spots, pc, si, hi, stack,
                   index_busted, ui, round_number, shoe_number,
                   player_spot_data, cards_dealt, card_limit, card_values, hits_soft_17, arranged>>

NextHand == HandTakesCard \/ HandTakesAce

SpecHand == InitHand /\ [][NextHand]_vars

(***************************************************************************)
(* Spec: the simulation.  A program position is a value of pc; the loops   *)
(* over spots, hands and pending decisions advance si, hi and ui.          *)
(***************************************************************************)
NoShoe == [decks |-> 0, ncards |-> 0, cut_card_pos |-> 0, cut_card_out |-> FALSE]

\* the state when the simulation loop is first entered: the learner and the
\* two players exist, no shoe and no game yet
Init ==
    /\ shoe = NoShoe
    /\ last_dealt = 0
    /\ err = "none"
    /\ players = InitPlayers
    /\ q = QLearner
    /\ spots = <<>>
    /\ dealer_hand = <<>>
    /\ pc = "sim"
    /\ si = 1 /\ hi = 1 /\ ui = 1
    /\ stack = <<>> /\ index_busted = <<>>
    /\ round_number = 1
    /\ shoe_number = 0
    /\ player_spot_data \in Tables
    /\ cards_dealt = 0
    /\ card_limit = IF SumSpots(player_spot_data) = 1 THEN MaxCards
                    ELSE MaxCardsTwoSpots
    /\ card_values = DealtValues
    /\ hits_soft_17 = DEALER_HITS_SOFT_17
    /\ arranged = <<>>

\* a deal_cards call of the round engine; the shoe holds the cards
DealStep(number) ==
    /\ number <= shoe.ncards
    /\ cards_dealt + number <= card_limit
    /\ shoe' = deal_cards(shoe, number)
    /\ last_dealt' = number
    /\ cards_dealt' = cards_dealt + number
    /\ arranged' = SubSeq(arranged, number + 1, Len(arranged))

NoDeal == UNCHANGED <<shoe, last_dealt, cards_dealt, arranged>>

Hands(i) == spots[i].hands

PlayerOf(i) == spots[i].player

SetHands(i, hands) == [spots EXCEPT ![i].hands = hands]

\* the dealer's visible card
UpCard == dealer_hand[2]

\* the insurance loss without its factor 0.5
HalfBet_whole(bet) == bet

\* 0.5 * bet and 1.5 * bet; the bets of the program are even
HalfBet(bet) == bet \div 2

BjWin(bet) == (3 * bet) \div 2

\* the loop test that does not look at the cut card
LoopTest_ignores_cut_card(s) == "shoe_loop"

\* play_entire_shoe's loop test on shoe s: the next round, or "update q data"
LoopTest(s) == IF s.cut_card_out THEN "update_split" ELSE "shoe_loop"

\* the simulation loop with a capacity test that also refuses a full table
NewShoeAndGame_full_table_fails ==
    /\ pc = "sim" /\ err = "none" /\ shoe_number < NUMBER_SHOES_IN_SIMULATION
    /\ cards_dealt + 1 <= card_limit
    /\ shoe' = Shoe(SIM_DECKS, SIM_DECKS * CARDS_PER_DECK - 1 - CutSlack)
    /\ last_dealt' = 1
    /\ cards_dealt' = cards_dealt + 1
    /\ arranged' = SubSeq(arranged, 2, Len(arranged))
    /\ shoe_number' = shoe_number + 1
    /\ IF SumSpots(player_spot_data) >= MAX_TABLE_SPOTS
       THEN /\ err' = "TooManyPlayersException"
            /\ UNCHANGED <<spots, pc, round_number>>
       ELSE /\ spots' = GameSpots(player_spot_data)
            /\ round_number' = 1
            /\ pc' = LoopTest(shoe')
            /\ UNCHANGED err
    /\ UNCHANGED <<players, q, dealer_hand, si, hi, stack, index_busted, ui,
                   player_spot_data, card_limit, card_values, hits_soft_17>>

\* one iteration of the simulation loop up to the first loop test of
\* play_entire_shoe:
\* a new shoe, and a new game over it unless too many spots are requested
NewShoeAndGame ==
    /\ pc = "sim" /\ err = "none" /\ shoe_number < NUMBER_SHOES_IN_SIMULATION
    /\ cards_dealt + 1 <= card_limit
    /\ shoe' = Shoe(SIM_DECKS, SIM_DECKS * CARDS_PER_DECK - 1 - CutSlack)
    /\ last_dealt' = 1
    /\ cards_dealt' = cards_dealt + 1
    /\ arranged' = SubSeq(arranged, 2, Len(arranged))
    /\ shoe_number' = shoe_number + 1
    /\ IF SumSpots(player_spot_data) > MAX_TABLE_SPOTS
       THEN /\ err' = "TooManyPlayersException"
            /\ UNCHANGED <<spots, pc, round_number>>
       ELSE /\ spots' = GameSpots(player_spot_data)
            /\ round_number' = 1
            /\ pc' = LoopTest(shoe')
            /\ UNCHANGED err
    /\ UNCHANGED <<players, q, dealer_hand, si, hi, stack, index_busted, ui,
                   player_spot_data, card_limit, card_values, hits_soft_17>>

\* the loop test has passed and process_round creates the dealer hand
DealDealer ==
    /\ pc = "shoe_loop"
    /\ \E cards \in Deals(2) : dealer_hand' = cards
    /\ DealStep(2)
    /\ pc' = "deal_spots" /\ si' = 1
    /\ UNCHANGED <<err, players, q, spots, hi, stack, index_busted, ui,
                   round_number, shoe_number, player_spot_data, card_limit, card_values, hits_soft_17>>

\* "create player hands", one spot
DealSpot ==
    /\ pc = "deal_spots" /\ si <= NumSpots
    /\ \E cards \in Deals(2) :
         spots' = SetHands(si, Append(Hands(si),
                     PlayerHand(cards, get_bet_amount(players[PlayerOf(si)]), 1)))
    /\ DealStep(2)
    /\ si' = si + 1
    /\ UNCHANGED <<err, players, q, dealer_hand, pc, hi, stack, index_busted,
                   ui, round_number, shoe_number, player_spot_data, card_limit, card_values, hits_soft_17>>

DealSpotsDone ==
    /\ pc = "deal_spots" /\ si > NumSpots
    /\ pc' = "insurance" /\ si' = 1
    /\ NoDeal
    /\ UNCHANGED <<err, players, q, spots, dealer_hand, hi, stack,
                   index_busted, ui, round_number, shoe_number, player_spot_data, card_limit, card_values, hits_soft_17>>

\* "handle insurance bets" when the visible card is no ace
InsuranceNotOffered ==
    /\ pc = "insurance" /\ ~is_ace(UpCard)
    /\ pc' = "dealer_bj"
    /\ NoDeal
    /\ UNCHANGED <<err, players, q, spots, dealer_hand, si, hi, stack,
                   index_busted, ui, round_number, shoe_number, player_spot_data, card_limit, card_values, hits_soft_17>>

\* "handle insurance bets", one spot
InsuranceSpot ==
    /\ pc = "insurance" /\ is_ace(UpCard) /\ si <= NumSpots
    /\ LET p == PlayerOf(si)
           bet == Hands(si)[1].bet
       IN  players' =
             IF players[p].takes_insurance
             THEN IF is_paint(dealer_hand[1])
                  THEN [players EXCEPT ![p] = win(@, bet)]
                  ELSE [players EXCEPT ![p] = lose(@, HalfBet(bet))]
             ELSE players
    /\ si' = si + 1
    /\ NoDeal
    /\ UNCHANGED <<err, q, spots, dealer_hand, pc, hi, stack, index_busted,
                   ui, round_number, shoe_number, player_spot_data, card_limit, card_values, hits_soft_17>>

InsuranceDone ==
    /\ pc = "insurance" /\ is_ace(UpCard) /\ si > NumSpots
    /\ pc' = "dealer_bj" /\ si' = 1
    /\ NoDeal
    /\ UNCHANGED <<err, players, q, spots, dealer_hand, hi, stack,
                   index_busted, ui, round_number, shoe_number, player_spot_data, card_limit, card_values, hits_soft_17>>

\* "handle dealer blackjack case", the test
DealerBjTest ==
    /\ pc = "dealer_bj"
    /\ pc' = IF is_bj(dealer_hand) THEN "dealer_bj_spots" ELSE "player_bj"
    /\ si' = 1
    /\ NoDeal
    /\ UNCHANGED <<err, players, q, spots, dealer_hand, hi, stack,
                   index_busted, ui, round_number, shoe_number, player_spot_data, card_limit, card_values, hits_soft_17>>

\* "handle dealer blackjack case", one spot
DealerBjSpot ==
    /\ pc = "dealer_bj_spots" /\ si <= NumSpots
    /\ LET p == PlayerOf(si)
           hand == Hands(si)[1]
       IN  players' = IF ~is_bj(hand.cards)
                      THEN [players EXCEPT ![p] = lose(@, hand.bet)]
                      ELSE players
    /\ spots' = SetHands(si, <<>>)
    /\ si' = si + 1
    /\ NoDeal
    /\ UNCHANGED <<err, q, dealer_hand, pc, hi, stack, index_busted, ui,
                   round_number, shoe_number, player_spot_data, card_limit, card_values, hits_soft_17>>

\* process_round returns to play_entire_shoe (its locals are gone), which
\* adds one to round_number and tests its loop condition
RoundReturns ==
    /\ round_number' = round_number + 1
    /\ pc' = LoopTest(shoe)
    /\ dealer_hand' = <<>> /\ si' = 1 /\ hi' = 1 /\ ui' = 1
    /\ NoDeal

\* the return that ends the dealer blackjack case
DealerBjReturn ==
    /\ pc = "dealer_bj_spots" /\ si > NumSpots
    /\ RoundReturns
    /\ UNCHANGED <<err, players, q, spots, stack, index_busted, shoe_number,
                   player_spot_data, card_limit, card_values, hits_soft_17>>

\* the player blackjack loop without "spot.hands = []"
PlayerBjSpot_keeps_hand ==
    /\ pc = "player_bj" /\ si <= NumSpots
    /\ LET p == PlayerOf(si)
           hand == Hands(si)[1]
       IN  IF is_bj(hand.cards)
           THEN /\ players' = [players EXCEPT ![p] = win(@, BjWin(hand.bet))]
                /\ UNCHANGED spots
           ELSE UNCHANGED <<players, spots>>
    /\ si' = si + 1
    /\ NoDeal
    /\ UNCHANGED <<err, q, dealer_hand, pc, hi, stack, index_busted, ui,
                   round_number, shoe_number, player_spot_data, card_limit, card_values, hits_soft_17>>

\* "handle player blackjacks", one spot
PlayerBjSpot ==
    /\ pc = "player_bj" /\ si <= NumSpots
    /\ LET p == PlayerOf(si)
           hand == Hands(si)[1]
       IN  IF is_bj(hand.cards)
           THEN /\ players' = [players EXCEPT ![p] = win(@, BjWin(hand.bet))]
                /\ spots' = SetHands(si, <<>>)
           ELSE UNCHANGED <<players, spots>>
    /\ si' = si + 1
    /\ NoDeal
    /\ UNCHANGED <<err, q, dealer_hand, pc, hi, stack, index_busted, ui,
                   round_number, shoe_number, player_spot_data, card_limit, card_values, hits_soft_17>>

PlayerBjDone ==
    /\ pc = "player_bj" /\ si > NumSpots
    /\ pc' = "spots" /\ si' = 1
    /\ NoDeal
    /\ UNCHANGED <<err, players, q, spots, dealer_hand, hi, stack,
                   index_busted, ui, round_number, shoe_number, player_spot_data, card_limit, card_values, hits_soft_17>>

(***************************************************************************)
(* Per-spot resolution: __process_spot and its three helpers.              *)
(***************************************************************************)
RemoveAt(seq, i) == SubSeq(seq, 1, i - 1) \o SubSeq(seq, i + 1, Len(seq))

\* position of the hand object id in a hands list
HandIndex(hands, id) == CHOOSE i \in 1..Len(hands) : hands[i].id = id

\* the deletion that goes through index_busted in ascending order
RECURSIVE DeleteBusted_ascending(_, _)
DeleteBusted_ascending(hands, idx) ==
    IF idx = <<>> THEN hands
    ELSE LET m == CHOOSE k \in 1..Len(idx) :
                      \A j \in 1..Len(idx) : idx[j] >= idx[k]
         IN  DeleteBusted_ascending(RemoveAt(hands, idx[m]), RemoveAt(idx, m))

\* for i in sorted(index_busted, reverse=True): del spot.hands[i]
RECURSIVE DeleteBusted(_, _)
DeleteBusted(hands, idx) ==
    IF idx = <<>> THEN hands
    ELSE LET m == CHOOSE k \in 1..Len(idx) :
                      \A j \in 1..Len(idx) : idx[j] <= idx[k]
         IN  DeleteBusted(RemoveAt(hands, idx[m]), RemoveAt(idx, m))

\* the split test with the hand count compared by <=
MaySplit_off_by_one(hand, hands) == is_pair(hand.cards) /\ Len(hands) <= MAX_RESPLIT

\* the test that guards a split question in __process_splitting
MaySplit(hand, hands) == is_pair(hand.cards) /\ Len(hands) < MAX_RESPLIT

\* "handle player hands by spot position": a spot without a hand is passed
SpotSkip ==
    /\ pc = "spots" /\ si <= NumSpots /\ Hands(si) = <<>>
    /\ si' = si + 1
    /\ NoDeal
    /\ UNCHANGED <<err, players, q, spots, dealer_hand, pc, hi, stack,
                   index_busted, ui, round_number, shoe_number, player_spot_data, card_limit, card_values, hits_soft_17>>

\* __process_spot is entered and calls __process_splitting(spot.hands[0])
SpotBegin ==
    /\ pc = "spots" /\ si <= NumSpots /\ Hands(si) # <<>>
    /\ pc' = "splitting"
    /\ stack' = <<Hands(si)[1].id>>
    /\ NoDeal
    /\ UNCHANGED <<err, players, q, spots, dealer_hand, si, hi, index_busted,
                   ui, round_number, shoe_number, player_spot_data, card_limit, card_values, hits_soft_17>>

SpotsDone ==
    /\ pc = "spots" /\ si > NumSpots
    /\ pc' = "dealer_draw"
    /\ NoDeal
    /\ UNCHANGED <<err, players, q, spots, dealer_hand, si, hi, stack,
                   index_busted, ui, round_number, shoe_number, player_spot_data, card_limit, card_values, hits_soft_17>>

\* a __process_splitting call whose test fails: it returns at once
SplitNotAsked ==
    /\ pc = "splitting" /\ stack # <<>>
    /\ LET hands == Hands(si)
           hand == hands[HandIndex(hands, Head(stack))]
       IN  ~MaySplit(hand, hands)
    /\ stack' = Tail(stack)
    /\ NoDeal
    /\ UNCHANGED <<err, players, q, spots, dealer_hand, pc, si, hi,
                   index_busted, ui, round_number, shoe_number, player_spot_data, card_limit, card_values, hits_soft_17>>

\* a __process_splitting call that asks the player and splits: the hand is
\* replaced by its two halves at the end of the list, and the two recursive
\* calls are pending, h1's first
SplitTaken ==
    /\ pc = "splitting" /\ stack # <<>>
    /\ LET hands == Hands(si)
           at == HandIndex(hands, Head(stack))
           hand == hands[at]
       IN  /\ MaySplit(hand, hands)
           /\ \E o \in splits(players[PlayerOf(si)], hand.cards, UpCard, q) :
              \E new_cards \in Deals(2) :
                LET decision == Decision(hand.cards, UpCard, o.ans)
                    halves == split(hand, new_cards, 2 * Len(hands), 2 * Len(hands) + 1)
                    h1 == [halves[1] EXCEPT !.pair_decisions = Append(@, decision)]
                    h2 == [halves[2] EXCEPT !.pair_decisions = Append(@, decision)]
                IN  /\ o.ans
                    /\ q' = o.q
                    /\ spots' = SetHands(si, Append(Append(RemoveAt(hands, at), h1), h2))
                    /\ stack' = <<h1.id, h2.id>> \o Tail(stack)
    /\ DealStep(2)
    /\ UNCHANGED <<err, players, dealer_hand, pc, si, hi, index_busted, ui,
                   round_number, shoe_number, player_spot_data, card_limit, card_values, hits_soft_17>>

\* a __process_splitting call that asks the player and does not split
SplitDeclined ==
    /\ pc = "splitting" /\ stack # <<>>
    /\ LET hands == Hands(si)
           at == HandIndex(hands, Head(stack))
           hand == hands[at]
       IN  /\ MaySplit(hand, hands)
           /\ \E o \in splits(players[PlayerOf(si)], hand.cards, UpCard, q) :
                LET decision == Decision(hand.cards, UpCard, o.ans)
                IN  /\ ~o.ans
                    /\ q' = o.q
                    /\ spots' = SetHands(si,
                          [hands EXCEPT ![at].pair_decisions = Append(@, decision)])
    /\ stack' = Tail(stack)
    /\ NoDeal
    /\ UNCHANGED <<err, players, dealer_hand, pc, si, hi, index_busted, ui,
                   round_number, shoe_number, player_spot_data, card_limit, card_values, hits_soft_17>>

\* __process_spot going from the splitting straight to the hit/stand loop
SplittingDone_skips_doubling ==
    /\ pc = "splitting" /\ stack = <<>>
    /\ pc' = "hit_stand" /\ hi' = 1 /\ index_busted' = <<>>
    /\ NoDeal
    /\ UNCHANGED <<err, players, q, spots, dealer_hand, si, stack, ui,
                   round_number, shoe_number, player_spot_data, card_limit, card_values, hits_soft_17>>

\* __process_splitting has returned; __process_double_downs begins
SplittingDone ==
    /\ pc = "splitting" /\ stack = <<>>
    /\ pc' = "double" /\ hi' = 1 /\ index_busted' = <<>>
    /\ NoDeal
    /\ UNCHANGED <<err, players, q, spots, dealer_hand, si, stack, ui,
                   round_number, shoe_number, player_spot_data, card_limit, card_values, hits_soft_17>>

\* the double that does not mark the hand
Doubled_unmarked(hand, decision, double_card) ==
    LET asked == [hand EXCEPT !.double_decisions = Append(@, decision)]
    IN  IF decision.value
        THEN [asked EXCEPT !.bet = 2 * @, !.cards = @ \o double_card]
        ELSE asked

\* the hand after the double question: the decision is recorded, and a
\* doubling hand doubles its bet and takes the card
Doubled(hand, decision, double_card) ==
    LET asked == [hand EXCEPT !.double_decisions = Append(@, decision)]
    IN  IF decision.value
        THEN [asked EXCEPT !.bet = 2 * @, !.cards = @ \o double_card,
                           !.is_doubled = TRUE]
        ELSE asked

\* one iteration of __process_double_downs
DoubleHand ==
    /\ pc = "double" /\ hi <= Len(Hands(si))
    /\ LET p == PlayerOf(si)
           hand == Hands(si)[hi]
       IN  \E o \in doubles(players[p], hand.cards, UpCard, q) :
           \E double_card \in Deals(1) :
             LET after == Doubled(hand, Decision(hand.cards, UpCard, o.ans), double_card)
             IN  /\ IF o.ans THEN DealStep(1) ELSE NoDeal
                 /\ spots' = SetHands(si, [Hands(si) EXCEPT ![hi] = after])
                 /\ IF is_bust(after.cards)
                    THEN /\ index_busted' = Append(index_busted, hi)
                         /\ players' = [players EXCEPT ![p] = lose(@, after.bet)]
                         /\ q' = process_decisions(after, FALSE, o.q)
                    ELSE /\ q' = o.q
                         /\ UNCHANGED <<index_busted, players>>
    /\ hi' = hi + 1
    /\ UNCHANGED <<err, dealer_hand, pc, si, stack, ui, round_number, shoe_number, player_spot_data, card_limit, card_values, hits_soft_17>>

\* the busted hands are deleted; __process_hit_stand begins
DoubleDone ==
    /\ pc = "double" /\ hi > Len(Hands(si))
    /\ spots' = SetHands(si, DeleteBusted(Hands(si), index_busted))
    /\ pc' = "hit_stand" /\ hi' = 1 /\ index_busted' = <<>>
    /\ NoDeal
    /\ UNCHANGED <<err, players, q, dealer_hand, si, stack, ui, round_number,
                   shoe_number, player_spot_data, card_limit, card_values, hits_soft_17>>

\* __process_hit_stand passes a doubled hand (and a hand that is bust when
\* its while loop is first tested)
HitStandPass ==
    /\ pc = "hit_stand" /\ hi <= Len(Hands(si))
    /\ Hands(si)[hi].is_doubled \/ is_bust(Hands(si)[hi].cards)
    /\ hi' = hi + 1
    /\ NoDeal
    /\ UNCHANGED <<err, players, q, spots, dealer_hand, pc, si, stack,
                   index_busted, ui, round_number, shoe_number, player_spot_data, card_limit, card_values, hits_soft_17>>

\* one iteration of the while loop: the player hits
Hit ==
    /\ pc = "hit_stand" /\ hi <= Len(Hands(si))
    /\ LET p == PlayerOf(si)
           hand == Hands(si)[hi]
       IN  /\ ~hand.is_doubled /\ ~is_bust(hand.cards)
           /\ \E o \in hits(players[p], hand.cards, UpCard, q) :
              \E hit_card \in Deals(1) :
                LET after == [hand EXCEPT
                                !.hit_stand_decisions =
                                    Append(@, Decision(hand.cards, UpCard, o.ans)),
                                !.cards = @ \o hit_card]
                IN  /\ o.ans
                    /\ spots' = SetHands(si, [Hands(si) EXCEPT ![hi] = after])
                    /\ IF is_bust(after.cards)
                       THEN /\ index_busted' = Append(index_busted, hi)
                            /\ players' = [players EXCEPT ![p] = lose(@, after.bet)]
                            /\ q' = process_decisions(after, FALSE, o.q)
                            /\ hi' = hi + 1
                       ELSE /\ q' = o.q
                            /\ UNCHANGED <<index_busted, players, hi>>
    /\ DealStep(1)
    /\ UNCHANGED <<err, dealer_hand, pc, si, stack, ui, round_number, shoe_number, player_spot_data, card_limit, card_values, hits_soft_17>>

\* one iteration of the while loop: the player stands
Stand ==
    /\ pc = "hit_stand" /\ hi <= Len(Hands(si))
    /\ LET p == PlayerOf(si)
           hand == Hands(si)[hi]
       IN  /\ ~hand.is_doubled /\ ~is_bust(hand.cards)
           /\ \E o \in hits(players[p], hand.cards, UpCard, q) :
                /\ ~o.ans
                /\ q' = o.q
                /\ spots' = SetHands(si,
                      [Hands(si) EXCEPT ![hi].hit_stand_decisions =
                          Append(@, Decision(hand.cards, UpCard, o.ans))])
    /\ hi' = hi + 1
    /\ NoDeal
    /\ UNCHANGED <<err, players, dealer_hand, pc, si, stack, index_busted, ui,
                   round_number, shoe_number, player_spot_data, card_limit, card_values, hits_soft_17>>

\* the busted hands are deleted; __process_spot returns and the loop over
\* the spots goes on
HitStandDone ==
    /\ pc = "hit_stand" /\ hi > Len(Hands(si))
    /\ spots' = SetHands(si, DeleteBusted(Hands(si), index_busted))
    /\ pc' = IF si < NumSpots THEN "spots" ELSE "dealer_draw"
    /\ si' = si + 1 /\ hi' = 1 /\ index_busted' = <<>>
    /\ NoDeal
    /\ UNCHANGED <<err, players, q, dealer_hand, stack, ui, round_number,
                   shoe_number, player_spot_data, card_limit, card_values, hits_soft_17>>

(***************************************************************************)
(* Dealer draw, settlement and clear.                                      *)
(***************************************************************************)
\* "handle dealer hand", one iteration of the while loop
DealerHit ==
    /\ pc = "dealer_draw" /\ dealer_hits(dealer_hand)
    /\ \E hit_card \in Deals(1) : dealer_hand' = dealer_hand \o hit_card
    /\ DealStep(1)
    /\ UNCHANGED <<err, players, q, spots, pc, si, hi, stack, index_busted,
                   ui, round_number, shoe_number, player_spot_data, card_limit, card_values, hits_soft_17>>

\* the position of the settlement loops at or after hand h of spot i: the
\* next hand there is, or past the last spot
RECURSIVE NextHandPos(_, _, _)
NextHandPos(sp, i, h) ==
    IF i > Len(sp) THEN <<i, 1>>
    ELSE IF h <= Len(sp[i].hands) THEN <<i, h>>
    ELSE NextHandPos(sp, i + 1, 1)

DealerStands ==
    /\ pc = "dealer_draw" /\ ~dealer_hits(dealer_hand)
    /\ pc' = "settle"
    /\ si' = NextHandPos(spots, 1, 1)[1] /\ hi' = NextHandPos(spots, 1, 1)[2]
    /\ NoDeal
    /\ UNCHANGED <<err, players, q, spots, dealer_hand, stack, index_busted,
                   ui, round_number, shoe_number, player_spot_data, card_limit, card_values, hits_soft_17>>

\* the payoff that pays a hand whose total equals the dealer's
Payoff_pays_ties(hand, dealer_cards) ==
    IF is_bust(dealer_cards) THEN "win"
    ELSE IF get_sum(hand.cards) >= get_sum(dealer_cards) THEN "win"
    ELSE "lose"

\* "payoff stayed hands or take bets" for one hand: "win", "lose" or "push"
Payoff(hand, dealer_cards) ==
    IF is_bust(dealer_cards) THEN "win"
    ELSE IF get_sum(hand.cards) > get_sum(dealer_cards) THEN "win"
    ELSE IF get_sum(hand.cards) < get_sum(dealer_cards) THEN "lose"
    ELSE "push"

\* the settlement that pays an Ace with a ten-valued card three to two
SettleHand_pays_three_to_two ==
    /\ pc = "settle" /\ si <= NumSpots /\ hi <= Len(Hands(si))
    /\ LET p == PlayerOf(si)
           hand == Hands(si)[hi]
           result == Payoff(hand, dealer_hand)
       IN  CASE result = "win" ->
                  /\ players' = [players EXCEPT ![p] = win(@, IF is_bj(hand.cards) THEN BjWin(hand.bet) ELSE hand.bet)]
                  /\ q' = process_decisions(hand, TRUE, q)
             [] result = "lose" ->
                  /\ players' = [players EXCEPT ![p] = lose(@, hand.bet)]
                  /\ q' = process_decisions(hand, FALSE, q)
             [] OTHER -> UNCHANGED <<players, q>>
    /\ si' = NextHandPos(spots, si, hi + 1)[1]
    /\ hi' = NextHandPos(spots, si, hi + 1)[2]
    /\ NoDeal
    /\ UNCHANGED <<err, spots, dealer_hand, pc, stack, index_busted, ui,
                   round_number, shoe_number, player_spot_data, card_limit, card_values, hits_soft_17>>

\* "payoff stayed hands or take bets", one hand of one spot
SettleHand ==
    /\ pc = "settle" /\ si <= NumSpots /\ hi <= Len(Hands(si))
    /\ LET p == PlayerOf(si)
           hand == Hands(si)[hi]
           result == Payoff(hand, dealer_hand)
       IN  CASE result = "win" ->
                  /\ players' = [players EXCEPT ![p] = win(@, hand.bet)]
                  /\ q' = process_decisions(hand, TRUE, q)
             [] result = "lose" ->
                  /\ players' = [players EXCEPT ![p] = lose(@, hand.bet)]
                  /\ q' = process_decisions(hand, FALSE, q)
             [] OTHER -> UNCHANGED <<players, q>>
    /\ si' = NextHandPos(spots, si, hi + 1)[1]
    /\ hi' = NextHandPos(spots, si, hi + 1)[2]
    /\ NoDeal
    /\ UNCHANGED <<err, spots, dealer_hand, pc, stack, index_busted, ui,
                   round_number, shoe_number, player_spot_data, card_limit, card_values, hits_soft_17>>

\* the end of process_round without the clear
Clear_keeps_hands ==
    /\ pc = "settle" /\ si > NumSpots
    /\ spots' = spots
    /\ RoundReturns
    /\ UNCHANGED <<err, players, q, stack, index_busted, shoe_number,
                   player_spot_data, card_limit, card_values, hits_soft_17>>

\* "clear": every spot's hands list is emptied and process_round returns
Clear ==
    /\ pc = "settle" /\ si > NumSpots
    /\ spots' = [i \in 1..NumSpots |-> [spots[i] EXCEPT !.hands = <<>>]]
    /\ RoundReturns
    /\ UNCHANGED <<err, players, q, stack, index_busted, shoe_number,
                   player_spot_data, card_limit, card_values, hits_soft_17>>

(***************************************************************************)
(* play_entire_shoe after the last round of the shoe: "update q data".     *)
(***************************************************************************)
\* one iteration of update_split_decision_values
FoldSplitDecision(ql, decision) ==
    LET totals == FoldTotals(ql.split_decision_totals, decision)
    IN  [ql EXCEPT !.split_decision_totals = totals,
                   !.split_decision_values = FoldValues(@, totals, decision.key)]

\* one iteration of update_double_decision_values
FoldDoubleDecision(ql, decision) ==
    LET totals == FoldTotals(ql.double_decision_totals, decision)
    IN  [ql EXCEPT !.double_decision_totals = totals,
                   !.double_decision_values = FoldValues(@, totals, decision.key)]

\* one iteration of update_hit_stand_decision_values
FoldHitStandDecision(ql, decision) ==
    LET totals == FoldTotals(ql.hit_stand_decision_totals, decision)
    IN  [ql EXCEPT !.hit_stand_decision_totals = totals,
                   !.hit_stand_decision_values = FoldValues(@, totals, decision.key)]

UpdateSplitFold ==
    /\ pc = "update_split" /\ ui <= Len(q.split_decisions)
    /\ q' = FoldSplitDecision(q, q.split_decisions[ui])
    /\ ui' = ui + 1
    /\ NoDeal
    /\ UNCHANGED <<err, players, spots, dealer_hand, pc, si, hi, stack,
                   index_busted, round_number, shoe_number, player_spot_data, card_limit, card_values, hits_soft_17>>

\* "reset the decision data"; update_double_decision_values begins
UpdateSplitReset ==
    /\ pc = "update_split" /\ ui > Len(q.split_decisions)
    /\ q' = [q EXCEPT !.split_decisions = <<>>]
    /\ pc' = "update_double" /\ ui' = 1
    /\ NoDeal
    /\ UNCHANGED <<err, players, spots, dealer_hand, si, hi, stack,
                   index_busted, round_number, shoe_number, player_spot_data, card_limit, card_values, hits_soft_17>>

UpdateDoubleFold ==
    /\ pc = "update_double" /\ ui <= Len(q.double_decisions)
    /\ q' = FoldDoubleDecision(q, q.double_decisions[ui])
    /\ ui' = ui + 1
    /\ NoDeal
    /\ UNCHANGED <<err, players, spots, dealer_hand, pc, si, hi, stack,
                   index_busted, round_number, shoe_number, player_spot_data, card_limit, card_values, hits_soft_17>>

\* the end of update_double_decision_values without its reset
UpdateDoubleReset_keeps_list ==
    /\ pc = "update_double" /\ ui > Len(q.double_decisions)
    /\ pc' = "update_hit_stand" /\ ui' = 1
    /\ NoDeal
    /\ UNCHANGED <<err, players, q, spots, dealer_hand, si, hi, stack,
                   index_busted, round_number, shoe_number, player_spot_data, card_limit, card_values, hits_soft_17>>

\* "reset the decision data"; update_hit_stand_decision_values begins
UpdateDoubleReset ==
    /\ pc = "update_double" /\ ui > Len(q.double_decisions)
    /\ q' = [q EXCEPT !.double_decisions = <<>>]
    /\ pc' = "update_hit_stand" /\ ui' = 1
    /\ NoDeal
    /\ UNCHANGED <<err, players, spots, dealer_hand, si, hi, stack,
                   index_busted, round_number, shoe_number, player_spot_data, card_limit, card_values, hits_soft_17>>

UpdateHitStandFold ==
    /\ pc = "update_hit_stand" /\ ui <= Len(q.hit_stand_decisions)
    /\ q' = FoldHitStandDecision(q, q.hit_stand_decisions[ui])
    /\ ui' = ui + 1
    /\ NoDeal
    /\ UNCHANGED <<err, players, spots, dealer_hand, pc, si, hi, stack,
                   index_busted, round_number, shoe_number, player_spot_data, card_limit, card_values, hits_soft_17>>

\* the end of update_hit_stand_decision_values without its reset
UpdateHitStandReset_keeps_list ==
    /\ pc = "update_hit_stand" /\ ui > Len(q.hit_stand_decisions)
    /\ pc' = "sim" /\ ui' = 1
    /\ NoDeal
    /\ UNCHANGED <<err, players, q, spots, dealer_hand, si, hi, stack,
                   index_busted, round_number, shoe_number, player_spot_data, card_limit, card_values, hits_soft_17>>

\* "reset the decision data"; play_entire_shoe returns to the simulation loop
UpdateHitStandReset ==
    /\ pc = "update_hit_stand" /\ ui > Len(q.hit_stand_decisions)
    /\ q' = [q EXCEPT !.hit_stand_decisions = <<>>]
    /\ pc' = "sim" /\ ui' = 1
    /\ NoDeal
    /\ UNCHANGED <<err, players, spots, dealer_hand, si, hi, stack,
                   index_busted, round_number, shoe_number, player_spot_data, card_limit, card_values, hits_soft_17>>

Next ==
    \/ NewShoeAndGame
    \/ DealDealer \/ DealSpot \/ DealSpotsDone
    \/ InsuranceNotOffered \/ InsuranceSpot \/ InsuranceDone
    \/ DealerBjTest \/ DealerBjSpot \/ DealerBjReturn
    \/ PlayerBjSpot \/ PlayerBjDone
    \/ SpotSkip \/ SpotBegin \/ SpotsDone
    \/ SplitNotAsked \/ SplitTaken \/ SplitDeclined \/ SplittingDone
    \/ DoubleHand \/ DoubleDone
    \/ HitStandPass \/ Hit \/ Stand \/ HitStandDone
    \/ DealerHit \/ DealerStands
    \/ SettleHand \/ Clear
    \/ UpdateSplitFold \/ UpdateSplitReset
    \/ UpdateDoubleFold \/ UpdateDoubleReset
    \/ UpdateHitStandFold \/ UpdateHitStandReset

Spec == Init /\ [][Next]_vars

(***************************************************************************)
(* SpecSplitting: __process_splitting on its own.  The first round of the   *)
(* first shoe at the table of one spot has dealt its hands, neither the    *)
(* dealer nor the player holds a blackjack, and the loop over the spots is *)
(* about to enter __process_spot; the run ends when __process_splitting    *)
(* has returned.  No card limit applies: MAX_RESPLIT bounds the run.       *)
(***************************************************************************)
InitSplitting ==
    /\ card_values = DealtValues
    /\ hits_soft_17 = DEALER_HITS_SOFT_17
    /\ arranged = <<>>
    /\ \E dealer \in Deals(2) : \E cards \in Deals(2) :
         /\ ~is_bj(dealer) /\ ~is_bj(cards)
         /\ dealer_hand = dealer
         /\ spots = << [player |-> "John",
                        hands |-> <<PlayerHand(cards, DEFAULT_BET, 1)>>] >>
         /\ players = [InitPlayers EXCEPT !["John"] =
                          IF is_ace(dealer[2]) THEN lose(@, HalfBet(DEFAULT_BET))
                          ELSE @]
    /\ shoe = deal_cards(deal_cards(
                  Shoe(SIM_DECKS, SIM_DECKS * CARDS_PER_DECK - 1 - CutSlack), 2), 2)
    /\ last_dealt = 2
    /\ err = "none"
    /\ q = QLearner
    /\ pc = "spots"
    /\ si = 1 /\ hi = 1 /\ ui = 1
    /\ stack = <<>> /\ index_busted = <<>>
    /\ round_number = 1
    /\ shoe_number = 1
    /\ player_spot_data = << <<"John", 1>> >>
    /\ cards_dealt = 5
    /\ card_limit = SIM_DECKS * CARDS_PER_DECK

NextSplitting ==
    SpotBegin \/ SplitNotAsked \/ SplitTaken \/ SplitDeclined \/ SplittingDone

SpecSplitting == InitSplitting /\ [][NextSplitting]_vars

(***************************************************************************)
(* SpecDealer: "handle dealer hand" of process_round, from every pair of   *)
(* dealer cards that is not a blackjack, with the shoe turning up every    *)
(* card value, under either value of DEALER_HITS_SOFT_17.  The one spot of *)
(* the table had a blackjack, which was paid.                              *)
(***************************************************************************)
InitDealer ==
    /\ card_values = CardValues
    /\ hits_soft_17 \in BOOLEAN
    /\ arranged = <<>>
    /\ \E dealer \in Deals(2) :
         /\ ~is_bj(dealer)
         /\ dealer_hand = dealer
         /\ players = [InitPlayers EXCEPT !["John"] =
                          win(IF is_ace(dealer[2]) THEN lose(@, HalfBet(DEFAULT_BET))
                              ELSE @,
                              BjWin(DEFAULT_BET))]
    /\ spots = << [player |-> "John", hands |-> <<>>] >>
    /\ shoe = deal_cards(deal_cards(
                  Shoe(SIM_DECKS, SIM_DECKS * CARDS_PER_DECK - 1 - CutSlack), 2), 2)
    /\ last_dealt = 2
    /\ err = "none"
    /\ q = QLearner
    /\ pc = "dealer_draw"
    /\ si = 2 /\ hi = 1 /\ ui = 1
    /\ stack = <<>> /\ index_busted = <<>>
    /\ round_number = 1
    /\ shoe_number = 1
    /\ player_spot_data = << <<"John", 1>> >>
    /\ cards_dealt = 5
    /\ card_limit = SIM_DECKS * CARDS_PER_DECK

NextDealer == DealerHit \/ DealerStands

SpecDealer == InitDealer /\ [][NextDealer]_vars

(***************************************************************************)
(* SpecArranged: play_entire_shoe on a shoe of six decks with the default  *)
(* cut card, in one order of its 312 cards, at the table of seven spots,   *)
(* with players of the RANDOM strategy that split whenever asked, never    *)
(* double and hit whenever asked.                                          *)
(***************************************************************************)
\* the cards of one of the first eight rounds: the dealer's 10, 7, the seven
\* spots' two cards, and the card each spot busts on
HighRound ==
    <<
      10, 7, 6, 10, 6, 10, 7, 11, 7, 11, 8, 12, 8, 12, 8, 13, 9, 9, 9, 11,
      12, 13, 13
    >>

\* the 127 cards left for the ninth round: the dealer's 6, 6, the spots'
\* two cards (pairs of Aces, 2s, 3s, 4s and 5s at the first five), and the
\* cards the splits and hits take
LastRound ==
    <<
      6, 6, 1, 1, 2, 2, 3, 3, 4, 4, 5, 5, 6, 5, 6, 4, 1, 1, 1, 1, 1, 1, 1,
      1, 1, 1, 1, 1, 1, 1, 1, 1, 1, 1, 1, 1, 1, 1, 2, 2, 2, 2, 2, 2, 2, 2,
      2, 2, 2, 2, 2, 2, 2, 2, 3, 3, 3, 3, 3, 3, 3, 3, 3, 3, 3, 2, 2, 2, 2,
      2, 2, 3, 3, 3, 3, 3, 4, 4, 4, 4, 4, 4, 4, 4, 4, 4, 4, 4, 4, 4, 4, 5,
      3, 3, 3, 3, 3, 3, 5, 5, 5, 5, 5, 5, 5, 5, 5, 5, 5, 5, 5, 5, 6, 4, 4,
      4, 4, 4, 4, 6, 6, 5, 5, 5, 5, 5, 5
    >>

\* the shuffled shoe, front first: the card that is burned, eight rounds,
\* and the ninth
ArrangedShoe ==
    <<6>> \o HighRound \o HighRound \o HighRound \o HighRound
          \o HighRound \o HighRound \o HighRound \o HighRound \o LastRound

\* how often value v is among cards
Copies(cards, v) == Cardinality({i \in 1..Len(cards) : cards[i] = v})

\* Game(Shoe(6), q, ...) has been constructed and play_entire_shoe entered
InitArranged ==
    /\ card_values = CardValues
    /\ hits_soft_17 = DEALER_HITS_SOFT_17
    /\ \A v \in CardValues : Copies(ArrangedShoe, v) = 4 * SIM_DECKS
    /\ arranged = Tail(ArrangedShoe)
    /\ shoe = Shoe(SIM_DECKS, 2 * CARDS_PER_DECK)
    /\ last_dealt = 1
    /\ err = "none"
    /\ players = [n \in PlayerNames |-> Player(DEFAULT_STAKE, "RANDOM", FALSE)]
    /\ q = QLearner
    /\ player_spot_data = << <<"John", 3>>, <<"Katy", 4>> >>
    /\ spots = GameSpots(player_spot_data)
    /\ dealer_hand = <<>>
    /\ pc = "shoe_loop"
    /\ si = 1 /\ hi = 1 /\ ui = 1
    /\ stack = <<>> /\ index_busted = <<>>
    /\ round_number = 1
    /\ shoe_number = 1
    /\ cards_dealt = 1
    /\ card_limit = SIM_DECKS * CARDS_PER_DECK

\* one iteration of __process_double_downs with the answer no
DoubleNotTaken == DoubleHand /\ cards_dealt' = cards_dealt

\* the numbers of cards the code may ask of the shoe at the position the
\* program is at
RequestsHere ==
    IF pc = "shoe_loop" THEN {2}
    ELSE IF pc = "deal_spots" /\ si <= NumSpots THEN {2}
    ELSE IF pc = "splitting" /\ stack # <<>>
    THEN IF MaySplit(Hands(si)[HandIndex(Hands(si), Head(stack))], Hands(si))
         THEN {2} ELSE {}
    ELSE IF pc = "double" /\ hi <= Len(Hands(si)) THEN {1}
    ELSE IF pc = "hit_stand" /\ hi <= Len(Hands(si))
    THEN IF ~Hands(si)[hi].is_doubled /\ ~is_bust(Hands(si)[hi].cards)
         THEN {1} ELSE {}
    ELSE IF pc = "dealer_draw" /\ dealer_hits(dealer_hand) THEN {1}
    ELSE {}

\* a deal_cards call of the round for more cards than are left: the cards
\* that are left are popped, popleft raises IndexError, and nothing catches it
ShoeRunsOut ==
    /\ err = "none"
    /\ \E number \in RequestsHere :
         /\ number > shoe.ncards
         /\ shoe' = [deal_cards(shoe, number) EXCEPT !.ncards = 0]
         /\ cards_dealt' = cards_dealt + shoe.ncards
    /\ arranged' = <<>>
    /\ err' = "IndexError"
    /\ pc' = "exit"
    /\ UNCHANGED <<last_dealt, players, q, spots, dealer_hand, si, hi,
                   stack, index_busted, ui, round_number, shoe_number,
                   player_spot_data, card_limit, card_values, hits_soft_17>>

\* the steps play_entire_shoe takes on this shoe: no Ace is shown and no
\* blackjack dealt, every hand busts, and the dealer stands on 17
NextArranged ==
    \/ DealDealer \/ DealSpot \/ DealSpotsDone
    \/ InsuranceNotOffered
    \/ DealerBjTest
    \/ PlayerBjSpot \/ PlayerBjDone
    \/ SpotBegin
    \/ SplitNotAsked \/ SplitTaken \/ SplittingDone
    \/ DoubleNotTaken \/ DoubleDone
    \/ Hit \/ HitStandDone
    \/ DealerStands
    \/ Clear
    \/ ShoeRunsOut

SpecArranged == InitArranged /\ [][NextArranged]_vars

(***************************************************************************)
(* SpecRounds: play_entire_shoe and the updates after it at the table of   *)
(* one spot, on one shuffled shoe, under every answer of the policy.  The  *)
(* cut card lies where the first card after the initial deal brings it     *)
(* out, so that a first round in which nobody draws is followed by a       *)
(* second.  No card limit applies.  The program runs on while it has a     *)
(* step to take, which is the weak fairness of the next-state action.      *)
(***************************************************************************)
\* the shuffled shoe, front first
OneSpotShoe ==
    <<
      6, 10, 6, 1, 10, 5, 10, 7, 8, 8, 8, 3, 8, 8, 8, 2, 10, 10, 10, 10, 10, 10, 10,
      10, 10, 10, 10, 10, 10, 11, 12, 13, 9, 8, 7, 6, 5, 4, 3, 2, 1, 10, 11, 12, 13, 9,
      8, 7, 6, 5, 4, 3, 2, 1, 10, 11, 12, 13, 9, 8, 7, 6, 5, 4, 3, 2, 1, 10, 11,
      12, 13, 9, 8, 7, 6, 5, 4, 3, 2, 1, 10, 11, 12, 13, 9, 8, 7, 6, 5, 4, 3, 2,
      1, 10, 11, 12, 13, 9, 8, 7, 6, 5, 4, 3, 2, 1, 10, 11, 12, 13, 9, 8, 7, 6, 5,
      4, 3, 2, 1, 10, 11, 12, 13, 9, 8, 7, 6, 5, 4, 3, 2, 1, 10, 11, 12, 13, 9, 8,
      7, 6, 5, 4, 3, 2, 1, 11, 12, 13, 9, 8, 7, 6, 5, 4, 3, 2, 1, 11, 12, 13, 9,
      8, 7, 6, 5, 4, 3, 2, 1, 11, 12, 13, 9, 8, 7, 6, 5, 4, 3, 2, 1, 11, 12, 13,
      9, 8, 7, 6, 5, 4, 3, 2, 1, 11, 12, 13, 9, 8, 7, 6, 5, 4, 3, 2, 1, 11, 12,
      13, 9, 8, 7, 6, 5, 4, 3, 2, 1, 11, 12, 13, 9, 8, 7, 6, 5, 4, 3, 2, 1, 11,
      12, 13, 9, 8, 7, 6, 5, 4, 3, 2, 1, 11, 12, 13, 9, 8, 7, 6, 5, 4, 3, 2, 1,
      11, 12, 13, 9, 7, 6, 5, 4, 3, 2, 1, 11, 12, 13, 9, 7, 6, 5, 4, 3, 2, 1, 11,
      12, 13, 9, 7, 6, 5, 4, 3, 2, 1, 11, 12, 13, 9, 7, 6, 5, 4, 3, 2, 1, 11, 12,
      13, 9, 7, 5, 4, 3, 2, 1, 11, 12, 13, 9, 4
    >>

\* Game(Shoe(6, cut_card_pos), q, ...) has been constructed and
\* play_entire_shoe entered
InitRounds ==
    /\ card_values = CardValues
    /\ hits_soft_17 = DEALER_HITS_SOFT_17
    /\ \A v \in CardValues : Copies(OneSpotShoe, v) = 4 * SIM_DECKS
    /\ arranged = Tail(OneSpotShoe)
    /\ shoe = Shoe(SIM_DECKS, SIM_DECKS * CARDS_PER_DECK - 2 - CutSlack)
    /\ last_dealt = 1
    /\ err = "none"
    /\ players = [n \in PlayerNames |-> Player(DEFAULT_STAKE, "RANDOM", FALSE)]
    /\ q = QLearner
    /\ player_spot_data = << <<"John", 1>> >>
    /\ spots = GameSpots(player_spot_data)
    /\ dealer_hand = <<>>
    /\ pc = "shoe_loop"
    /\ si = 1 /\ hi = 1 /\ ui = 1
    /\ stack = <<>> /\ index_busted = <<>>
    /\ round_number = 1
    /\ shoe_number = 1
    /\ cards_dealt = 1
    /\ card_limit = SIM_DECKS * CARDS_PER_DECK

\* the steps taken on this shoe: no Ace is shown and no blackjack dealt
NextRounds ==
    \/ DealDealer \/ DealSpot \/ DealSpotsDone
    \/ InsuranceNotOffered
    \/ DealerBjTest
    \/ PlayerBjSpot \/ PlayerBjDone
    \/ SpotSkip \/ SpotBegin \/ SpotsDone
    \/ SplitNotAsked \/ SplitTaken \/ SplitDeclined \/ SplittingDone
    \/ DoubleHand \/ DoubleDone
    \/ HitStandPass \/ Hit \/ Stand \/ HitStandDone
    \/ DealerHit \/ DealerStands
    \/ SettleHand \/ Clear
    \/ UpdateSplitFold \/ UpdateSplitReset
    \/ UpdateDoubleFold \/ UpdateDoubleReset
    \/ UpdateHitStandFold \/ UpdateHitStandReset

SpecRounds == InitRounds /\ [][NextRounds]_vars /\ WF_vars(NextRounds)

(***************************************************************************)
(* Properties.                                                             *)
(***************************************************************************)
Money(n) == players[n].money

\* what one step adds to the money of player n
Gain(n) == players'[n].money - players[n].money

\* the hands of spot i after the step
HandsAfter(i) == spots'[i].hands

\* only player p's money may differ after the step
OnlyPays(p) == \A n \in PlayerNames \ {p} : players'[n] = players[n]

\* an Ace and a ten-value card, in either order
AceAndTen(cards) ==
    /\ Len(cards) = 2
    /\ \/ cards[1] = 1 /\ cards[2] \in 10..13
       \/ cards[2] = 1 /\ cards[1] \in 10..13

\* position (i, h) comes before position (j, k) in the order of the
\* settlement loops
Before(i, h, j, k) == i < j \/ (i = j /\ h < k)

\* the hands of the table as positions
HandPositions == {<<i, h>> \in (1..NumSpots) \X (1..MAX_RESPLIT) : h <= Len(Hands(i))}

\* C1: at settlement every hand left in a spot is visited in turn; the
\* player's money rises by the hand's bet if the dealer is bust, and else
\* rises by the bet on a higher total, falls by the bet on a lower total and
\* is unchanged on equal totals; no other player's money changes.
C1_SettlementArithmetic ==
    [][ /\ (pc = "dealer_draw" /\ pc' = "settle") =>
              \A x \in HandPositions : ~Before(x[1], x[2], si', hi')
        /\ (pc = "settle" /\ si <= NumSpots) =>
              LET p == PlayerOf(si)
                  hand == Hands(si)[hi]
                  mine == get_sum(hand.cards)
                  theirs == get_sum(dealer_hand)
              IN  /\ <<si, hi>> \in HandPositions
                  /\ is_bust(dealer_hand) => Gain(p) = hand.bet
                  /\ (~is_bust(dealer_hand) /\ mine > theirs) => Gain(p) = hand.bet
                  /\ (~is_bust(dealer_hand) /\ mine < theirs) => Gain(p) = -hand.bet
                  /\ (~is_bust(dealer_hand) /\ mine = theirs) => Gain(p) = 0
                  /\ OnlyPays(p)
                  /\ Before(si, hi, si', hi')
                  /\ \A x \in HandPositions :
                        Before(si, hi, x[1], x[2]) => ~Before(x[1], x[2], si', hi')
      ]_vars

\* C1's case: a settlement is over in which a hand lost to a higher dealer
\* total and a bet was taken
C1_Witness ==
    /\ pc = "settle" /\ si > NumSpots
    /\ ~is_bust(dealer_hand)
    /\ \E i \in 1..NumSpots :
          /\ Hands(i) # <<>>
          /\ get_sum(Hands(i)[1].cards) < get_sum(dealer_hand)
          /\ Money(PlayerOf(i)) = DEFAULT_STAKE - DEFAULT_BET

\* C2: the dealer blackjack case is taken exactly when the dealer's two
\* cards are an Ace and a ten-value card; in it a spot without blackjack
\* loses its original bet, a spot with blackjack sees no money change, every
\* spot's hands are emptied, the shoe deals nothing, no decision is recorded
\* or asked, and the round returns.
C2_DealerBlackjack ==
    [][ /\ pc = "dealer_bj" => ((pc' = "dealer_bj_spots") <=> AceAndTen(dealer_hand))
        /\ pc = "dealer_bj_spots" =>
              /\ AceAndTen(dealer_hand)
              /\ shoe' = shoe /\ q' = q /\ cards_dealt' = cards_dealt
              /\ IF si <= NumSpots
                 THEN LET p == PlayerOf(si)
                          hand == Hands(si)[1]
                      IN  /\ Len(Hands(si)) = 1 /\ hand.bet = DEFAULT_BET
                          /\ hand.pair_decisions = <<>>
                          /\ hand.double_decisions = <<>>
                          /\ hand.hit_stand_decisions = <<>>
                          /\ Gain(p) = IF AceAndTen(hand.cards) THEN 0 ELSE -hand.bet
                          /\ OnlyPays(p)
                          /\ HandsAfter(si) = <<>>
                          /\ pc' = pc
                 ELSE /\ \A i \in 1..NumSpots : Hands(i) = <<>> /\ HandsAfter(i) = <<>>
                      /\ players' = players
                      /\ pc' \in {"shoe_loop", "update_split"}
                      /\ round_number' = round_number + 1
      ]_vars

\* C2's case: the dealer blackjack loop is over at the table of two spots;
\* John lost his bet, and Katy, who held a blackjack, lost nothing
C2_Witness ==
    /\ pc = "dealer_bj_spots" /\ si > NumSpots /\ NumSpots = 2
    /\ dealer_hand = <<1, 10>>
    /\ Money("John") = DEFAULT_STAKE - DEFAULT_BET
    /\ Money("Katy") = DEFAULT_STAKE

\* the positions of a round after the player blackjacks have been paid
AfterPlayerBj == {"spots", "splitting", "double", "hit_stand", "dealer_draw", "settle"}

\* C3: against a dealer without blackjack a spot whose two cards are a
\* blackjack wins 1.5 times its bet (150 for 100) and its hand is cleared
\* at once; from then on in the round the spot stays empty, takes no card,
\* is asked nothing and is not settled: money moves only for the player of
\* a spot that still has a hand.
C3_PlayerBlackjack ==
    [][ /\ (pc = "player_bj" /\ si <= NumSpots) =>
              LET p == PlayerOf(si)
                  hand == Hands(si)[1]
              IN  /\ ~AceAndTen(dealer_hand)
                  /\ shoe' = shoe /\ q' = q
                  /\ OnlyPays(p)
                  /\ IF AceAndTen(hand.cards)
                     THEN /\ 2 * Gain(p) = 3 * hand.bet
                          /\ hand.bet = 100 => Gain(p) = 150
                          /\ HandsAfter(si) = <<>>
                     ELSE /\ Gain(p) = 0
                          /\ HandsAfter(si) = Hands(si)
        /\ pc \in AfterPlayerBj =>
              /\ \A i \in 1..NumSpots : Hands(i) = <<>> => HandsAfter(i) = <<>>
              /\ (si <= NumSpots /\ Hands(si) = <<>>) =>
                    (shoe' = shoe /\ q' = q /\ players' = players)
              /\ \A n \in PlayerNames : Gain(n) # 0 =>
                    (si <= NumSpots /\ PlayerOf(si) = n /\ Hands(si) # <<>>)
      ]_vars

\* C3's case: John was paid 150 for his blackjack and his spot is empty
\* while Katy's hand is being settled
C3_Witness ==
    /\ pc = "settle" /\ NumSpots = 2 /\ si = 2
    /\ Hands(1) = <<>> /\ Hands(2) # <<>>
    /\ Money("John") = DEFAULT_STAKE + 150

\* C4: in the insurance phase money moves only when the dealer's second
\* card is an Ace, once for each spot in turn and only for a player who
\* takes insurance: up by the spot's bet if the dealer's first card is a
\* ten-value card, down by half the bet otherwise; the phase leaves hands,
\* bets, the shoe and the learner as they were.
C4_Insurance ==
    [][ pc = "insurance" =>
          /\ spots' = spots /\ q' = q /\ shoe' = shoe /\ dealer_hand' = dealer_hand
          /\ IF dealer_hand[2] = 1 /\ si <= NumSpots
             THEN LET p == PlayerOf(si)
                      bet == Hands(si)[1].bet
                  IN  /\ si' = si + 1
                      /\ OnlyPays(p)
                      /\ ~players[p].takes_insurance => Gain(p) = 0
                      /\ (players[p].takes_insurance /\ dealer_hand[1] \in 10..13) =>
                            Gain(p) = bet
                      /\ (players[p].takes_insurance /\ dealer_hand[1] \notin 10..13) =>
                            2 * Gain(p) = -bet
             ELSE players' = players
      ]_vars

\* C4's case: the dealer shows an Ace over a card that is no ten; John, who
\* takes insurance, has lost half his bet and Katy, who does not, nothing
C4_Witness ==
    /\ pc = "dealer_bj" /\ NumSpots = 2
    /\ dealer_hand = <<1, 1>>
    /\ Money("John") = DEFAULT_STAKE - 50
    /\ Money("Katy") = DEFAULT_STAKE

\* C5: a spot never holds more than MAX_RESPLIT = 4 hands; a
\* __process_splitting call made when the spot holds 4 hands asks nothing
\* and splits nothing; a split removes one two-card pair and appends two
\* two-card hands that start with the pair's cards, for two cards of the
\* shoe.
C5_ResplitCeiling ==
    [][ /\ MAX_RESPLIT = 4
        /\ \A i \in 1..NumSpots : Len(HandsAfter(i)) <= 4
        /\ (pc = "splitting" /\ stack # <<>> /\ Len(Hands(si)) >= 4) =>
              (spots' = spots /\ q' = q /\ shoe' = shoe)
        /\ (pc = "splitting" /\ Len(HandsAfter(si)) # Len(Hands(si))) =>
              LET old == Hands(si)
                  new == HandsAfter(si)
              IN  /\ Len(new) = Len(old) + 1
                  /\ shoe'.ncards = shoe.ncards - 2
                  /\ \E at \in 1..Len(old) :
                        /\ Len(old[at].cards) = 2
                        /\ old[at].cards[1] = old[at].cards[2]
                        /\ SubSeq(new, 1, Len(old) - 1) = RemoveAt(old, at)
                        /\ Len(new[Len(old)].cards) = 2
                        /\ Len(new[Len(old) + 1].cards) = 2
                        /\ new[Len(old)].cards[1] = old[at].cards[1]
                        /\ new[Len(old) + 1].cards[1] = old[at].cards[2]
      ]_vars

\* C5's case: __process_splitting has returned with 4 hands in the spot, one
\* of them a pair that was never asked about
C5_Witness ==
    /\ pc = "double" /\ Len(Hands(1)) = 4
    /\ \E h \in 1..4 :
          /\ Hands(1)[h].cards[1] = Hands(1)[h].cards[2]
          /\ Len(Hands(1)[h].pair_decisions) = 1

\* the learner's three pending lists, its three tables of totals and of
\* best actions, and the position of each table's update loop
Pending(ql) == <<ql.split_decisions, ql.double_decisions, ql.hit_stand_decisions>>

Totals(ql) ==
    <<ql.split_decision_totals, ql.double_decision_totals,
      ql.hit_stand_decision_totals>>

Values(ql) ==
    <<ql.split_decision_values, ql.double_decision_values,
      ql.hit_stand_decision_values>>

UpdatePc(k) == <<"update_split", "update_double", "update_hit_stand">>[k]

UpdatePcs == {UpdatePc(k) : k \in 1..3}

\* the three lists of decisions a hand carries
HandDecisions(hand) ==
    <<hand.pair_decisions, hand.double_decisions, hand.hit_stand_decisions>>

IsPrefix(a, b) == Len(a) <= Len(b) /\ SubSeq(b, 1, Len(a)) = a

NothingPending(ql) == \A k \in 1..3 : Pending(ql)[k] = <<>>

\* the hand at the settlement position beats the dealer, or loses to him
SettledWon(hand) ==
    is_bust(dealer_hand) \/ get_sum(hand.cards) > get_sum(dealer_hand)

SettledLost(hand) ==
    ~is_bust(dealer_hand) /\ get_sum(hand.cards) < get_sum(dealer_hand)

\* C6 as stated: every hand settled after the dealer draw, a push included,
\* has its recorded decisions appended to the learner's pending lists.
C6_EverySettlementForwards ==
    [][ (pc = "settle" /\ si <= NumSpots) =>
          \A k \in 1..3 :
             Len(Pending(q')[k]) =
                Len(Pending(q)[k]) + Len(HandDecisions(Hands(si)[hi])[k])
      ]_vars

\* C6 amended: a hand settled after the dealer draw that wins or loses has
\* each of its recorded decisions appended, in order, to the learner's
\* pending list of its kind with reward +bet or -bet; a hand that pushes
\* leaves the learner as it was.
C6_WinLossForwarded ==
    [][ (pc = "settle" /\ si <= NumSpots) =>
          LET hand == Hands(si)[hi]
          IN  IF SettledWon(hand) \/ SettledLost(hand)
              THEN \A k \in 1..3 :
                     LET before == Pending(q)[k]
                         after == Pending(q')[k]
                         ds == HandDecisions(hand)[k]
                     IN  /\ Len(after) = Len(before) + Len(ds)
                         /\ IsPrefix(before, after)
                         /\ \A j \in 1..Len(ds) :
                               /\ after[Len(before) + j].key = ds[j].key
                               /\ after[Len(before) + j].value = ds[j].value
                               /\ after[Len(before) + j].result =
                                     IF SettledWon(hand) THEN hand.bet ELSE -hand.bet
              ELSE q' = q
      ]_vars

\* C6's case: at the table of two spots John's hand has pushed and Katy's
\* has lost; the one double decision pending is Katy's
C6_Witness ==
    /\ pc = "settle" /\ si > NumSpots /\ NumSpots = 2
    /\ Hands(1) # <<>> /\ Hands(2) # <<>>
    /\ ~is_bust(dealer_hand)
    /\ get_sum(Hands(1)[1].cards) = get_sum(dealer_hand)
    /\ Hands(1)[1].double_decisions # <<>>
    /\ SettledLost(Hands(2)[1])
    /\ Len(q.double_decisions) = 1
    /\ q.double_decisions[1].result = -DEFAULT_BET

C8_FoldOneDecision ==
    [][ /\ Q_LEARN_GAMMA = 1
        /\ \A k \in 1..3 :
              (pc = UpdatePc(k) /\ ui <= Len(Pending(q)[k])) =>
                 LET d == Pending(q)[k][ui]
                     old == Totals(q)[k]
                     new == Totals(q')[k]
                     o == IF d.key \in DOMAIN old THEN old[d.key] ELSE <<0, 0, 0, 0>>
                 IN  /\ DOMAIN new = DOMAIN old \cup {d.key}
                     /\ \A key \in DOMAIN old \ {d.key} : new[key] = old[key]
                     /\ d.value =>
                           new[d.key] = <<o[1] + 1, o[2] + d.result, o[3], o[4]>>
                     /\ ~d.value =>
                           new[d.key] = <<o[1], o[2], o[3] + 1, o[4] + d.result>>
                     /\ \A j \in 1..3 \ {k} : Totals(q')[j] = Totals(q)[j]
        /\ \A k \in 1..3 :
              Len(Pending(q')[k]) > Len(Pending(q)[k]) =>
                 /\ pc \in {"double", "hit_stand", "settle"}
                 /\ LET hand == IF pc = "settle" THEN Hands(si)[hi]
                                ELSE HandsAfter(si)[hi]
                        reward == IF pc = "settle" /\ SettledWon(hand)
                                  THEN hand.bet ELSE -hand.bet
                        after == Pending(q')[k]
                    IN  \A j \in (Len(Pending(q)[k]) + 1)..Len(after) :
                           /\ after[j].result = reward
                           /\ after[j].number_discount_steps =
                                 Len(hand.cards) - after[j].size
                           /\ after[j].size >= 2
      ]_vars

\* C8's case: the first pending double decision, a double that lost its
\* doubled bet of 200, has been folded into an empty table
C8_Witness ==
    /\ pc = "update_double" /\ ui = 2
    /\ q.double_decisions[1].value /\ q.double_decisions[1].result = -200
    /\ q.double_decisions[1].number_discount_steps = 1
    /\ q.double_decision_totals[q.double_decisions[1].key] = <<1, -200, 0, 0>>

\* C9: a key keeps its best action, once it has one, through every step but
\* the fold of a decision of that key that leaves both its branches with an
\* observation; after such a fold the best action is (sumTrue / countTrue >
\* sumFalse / countFalse), false on equal averages; a fold that leaves a
\* branch without observation changes no best action.
C9_BestAction ==
    [][ \A k \in 1..3 :
          LET old == Values(q)[k]
              new == Values(q')[k]
              folding == pc = UpdatePc(k) /\ ui <= Len(Pending(q)[k])
          IN  /\ DOMAIN old \subseteq DOMAIN new
              /\ \A key \in DOMAIN old :
                    new[key] # old[key] =>
                       /\ folding
                       /\ Pending(q)[k][ui].key = key
                       /\ Totals(q')[k][key][1] >= 1
                       /\ Totals(q')[k][key][3] >= 1
              /\ folding =>
                    LET key == Pending(q)[k][ui].key
                        t == Totals(q')[k][key]
                    IN  IF t[1] >= 1 /\ t[3] >= 1
                        THEN /\ key \in DOMAIN new
                             /\ new[key] = (t[2] * t[3] > t[4] * t[1])
                        ELSE new = old
      ]_vars

\* C9's case: a split key has been folded on both branches with equal
\* averages, and its best action is false
C9_Witness ==
    /\ pc = "update_split" /\ ui > 1
    /\ LET key == q.split_decisions[ui - 1].key
           t == q.split_decision_totals[key]
       IN  /\ t[1] >= 1 /\ t[3] >= 1
           /\ t[2] * t[3] = t[4] * t[1]
           /\ key \in DOMAIN q.split_decision_values
           /\ q.split_decision_values[key] = FALSE

\* C10: in the 6-deck shoe (311 cards after the burn, cut card at 104) the
\* flag is down while more than 104 cards are left and up from the first
\* deal that leaves 104 or fewer; that deal returns every card asked for;
\* once up the flag stays up.
C10_CutCard ==
    [][ /\ shoe.cut_card_pos = 104
        /\ shoe.cut_card_out => shoe'.cut_card_out
        /\ err' = "none" => (shoe'.cut_card_out <=> shoe'.ncards <= 104)
        /\ (~shoe.cut_card_out /\ shoe'.cut_card_out) =>
              /\ shoe.ncards > 104
              /\ err' = "none"
              /\ last_dealt' = shoe.ncards - shoe'.ncards
              /\ last_dealt' = cards_dealt' - cards_dealt
      ]_vars

\* C10's case: a deal of two cards from 105 has just raised the flag
C10_Witness ==
    /\ shoe.decks = 6 /\ cards_dealt + shoe.ncards = 312
    /\ shoe.cut_card_out /\ shoe.ncards = 103 /\ last_dealt = 2

\* the spots requested by the first k entries of player_spot_data
RECURSIVE Requested(_, _)
Requested(data, k) == IF k = 0 THEN 0 ELSE data[k][2] + Requested(data, k - 1)

\* the player that entry k of player_spot_data names
RequestedBy(data, i) ==
    data[CHOOSE k \in 1..Len(data) :
            Requested(data, k - 1) < i /\ i <= Requested(data, k)][1]

\* C11: a game over a player_spot_data that asks for more than
\* MAX_TABLE_SPOTS = 7 spots raises TooManyPlayersException: no spot is
\* made, no player bound, and nothing but the new shoe's burn card has left
\* the shoe; one that asks for 7 or fewer gets a spot for every spot asked
\* for, bound to the players in the order and number requested; the
\* exception arises nowhere else, and nothing runs after it.
C11_TableCapacity ==
    [][ /\ MAX_TABLE_SPOTS = 7
        /\ err = "none"
        /\ err' # err => pc = "sim"
        /\ pc = "sim" =>
              LET data == player_spot_data
                  wanted == Requested(data, Len(data))
              IN  /\ last_dealt' = 1 /\ cards_dealt' = cards_dealt + 1
                  /\ dealer_hand' = <<>>
                  /\ IF wanted > 7
                     THEN /\ err' = "TooManyPlayersException"
                          /\ spots' = <<>>
                          /\ pc' = "sim"
                     ELSE /\ err' = "none"
                          /\ Len(spots') = wanted
                          /\ \A i \in 1..wanted :
                                /\ spots'[i].player = RequestedBy(data, i)
                                /\ spots'[i].hands = <<>>
      ]_vars

\* C11's case: the table of 4 + 4 spots was refused; there is no spot, and
\* the burn card of the shoe is the only card dealt
C11_Witness ==
    /\ err = "TooManyPlayersException"
    /\ SumSpots(player_spot_data) = 8
    /\ spots = <<>> /\ cards_dealt = 1 /\ dealer_hand = <<>>

\* the sum of a hand with every Ace counted 1 and every Ten, Jack, Queen and
\* King counted 10
RECURSIVE AcesLow(_)
AcesLow(cards) ==
    IF cards = <<>> THEN 0
    ELSE (IF Head(cards) \in 10..13 THEN 10 ELSE Head(cards)) + AcesLow(Tail(cards))

HoldsAce(cards) == \E i \in 1..Len(cards) : cards[i] = 1

\* C12: for a non-empty hand is_bust is true exactly when the sum with
\* every Ace counted 1 exceeds 21; get_sum is at most 21 on a hand that is
\* not bust and above 21 on one that is; get_sum is that sum or that sum
\* plus 10, the latter only on a hand that holds an Ace and stays at or
\* below 21.
C12_BustAndSum ==
    dealer_hand # <<>> =>
        LET low == AcesLow(dealer_hand)
            total == get_sum(dealer_hand)
        IN  /\ is_bust(dealer_hand) <=> low > 21
            /\ ~is_bust(dealer_hand) => total <= 21
            /\ is_bust(dealer_hand) => total > 21
            /\ total \in {low, low + 10}
            /\ total = low + 10 => (HoldsAce(dealer_hand) /\ total <= 21)

\* C12's case: the hand of 21 aces is not bust and sums to 21
C12_Witness ==
    /\ pc = "hand_driver"
    /\ dealer_hand = [i \in 1..21 |-> 1]
    /\ ~is_bust(dealer_hand)
    /\ get_sum(dealer_hand) = 21

\* C13: is_soft is true exactly of a hand that holds an Ace and whose sum
\* with every Ace counted 1 is at most 11, and exactly then get_sum is that
\* sum plus 10.
C13_SoftIffPromoted ==
    LET low == AcesLow(dealer_hand)
    IN  /\ is_soft(dealer_hand) <=> (HoldsAce(dealer_hand) /\ low <= 11)
        /\ is_soft(dealer_hand) <=> get_sum(dealer_hand) = low + 10

\* C13's case: 9, Ten, Ace holds an Ace and is not soft
C13_Witness ==
    /\ pc = "hand_driver"
    /\ dealer_hand = <<9, 10, 1>>
    /\ ~is_soft(dealer_hand)
    /\ get_sum(dealer_hand) = 20

\* C14: is_bj is true only of a hand of exactly two cards, an Ace and a
\* ten-valued card in either order.
C14_BlackjackOnlyTwoCards ==
    Len(dealer_hand) >= 2 => (is_bj(dealer_hand) => AceAndTen(dealer_hand))

\* the hand answered yes to its double question
SaidDouble(hand) ==
    hand.double_decisions # <<>> /\ hand.double_decisions[1].value

\* every hand of every spot, with its spot
AllHands == { <<i, Hands(i)[j]>> : <<i, j>> \in HandPositions }

\* C15: each hand a spot holds after splitting is asked the double question
\* exactly once; a hand that doubles has its bet doubled, takes exactly one
\* card (its third), is marked doubled, and afterwards records no hit/stand
\* question and takes no card; its bust costs the doubled bet at once and
\* its settlement is for the doubled bet.
C15_DoubleDown ==
    [][ /\ (pc = "double" /\ hi <= Len(Hands(si))) =>
              LET p == PlayerOf(si)
                  hand == Hands(si)[hi]
                  after == HandsAfter(si)[hi]
              IN  /\ hand.double_decisions = <<>> /\ ~hand.is_doubled
                  /\ Len(hand.cards) = 2
                  /\ Len(after.double_decisions) = 1
                  /\ hi' = hi + 1 /\ pc' = "double"
                  /\ Len(HandsAfter(si)) = Len(Hands(si))
                  /\ \A j \in 1..Len(Hands(si)) :
                        j # hi => HandsAfter(si)[j] = Hands(si)[j]
                  /\ IF SaidDouble(after)
                     THEN /\ after.bet = 2 * hand.bet
                          /\ Len(after.cards) = 3
                          /\ SubSeq(after.cards, 1, 2) = hand.cards
                          /\ after.is_doubled
                          /\ cards_dealt' = cards_dealt + 1
                          /\ Gain(p) = IF is_bust(after.cards) THEN -(2 * hand.bet) ELSE 0
                     ELSE /\ after.bet = hand.bet /\ after.cards = hand.cards
                          /\ ~after.is_doubled
                          /\ cards_dealt' = cards_dealt
                          /\ Gain(p) = 0
        /\ (pc = "double" /\ pc' = "hit_stand") =>
              \A j \in 1..Len(HandsAfter(si)) :
                 Len(HandsAfter(si)[j].double_decisions) = 1
        /\ \A x \in AllHands :
              SaidDouble(x[2]) =>
                 /\ x[2].is_doubled
                 /\ Len(x[2].cards) = 3
                 /\ x[2].hit_stand_decisions = <<>>
                 /\ x[2].bet = 2 * DEFAULT_BET
                 /\ \A j \in 1..Len(HandsAfter(x[1])) :
                       HandsAfter(x[1])[j].id = x[2].id =>
                          HandsAfter(x[1])[j] = x[2]
        /\ (pc = "settle" /\ si <= NumSpots /\ SaidDouble(Hands(si)[hi])) =>
              /\ Payoff(Hands(si)[hi], dealer_hand) = "win"
                    => Gain(PlayerOf(si)) = 2 * DEFAULT_BET
              /\ Payoff(Hands(si)[hi], dealer_hand) = "lose"
                    => Gain(PlayerOf(si)) = -(2 * DEFAULT_BET)
      ]_vars

\* C15's case: a doubled hand went through the hit/stand phase untouched
\* and was paid twice the bet at settlement
C15_Witness ==
    /\ pc = "settle" /\ si > NumSpots /\ NumSpots = 1 /\ round_number = 1
    /\ Len(Hands(1)) = 1
    /\ SaidDouble(Hands(1)[1]) /\ Hands(1)[1].is_doubled
    /\ Len(Hands(1)[1].cards) = 3
    /\ Money("John") = DEFAULT_STAKE + 2 * DEFAULT_BET

NotBust(hand) == ~is_bust(hand.cards)

\* C16: a hand that busts after a double or a hit loses its bet in that
\* step and is gone from its spot when the spot's phase ends, the hands
\* that are not bust staying in their order; no busted hand is in a spot
\* while the dealer draws or at settlement; money moves in the double and
\* hit/stand phases only at a bust, and at settlement each remaining hand is
\* visited once.
C16_ResolvedOnce ==
    [][ /\ pc \in {"dealer_draw", "settle"} =>
              \A x \in AllHands : NotBust(x[2])
        /\ (pc \in {"double", "hit_stand"} /\ hi <= Len(Hands(si))) =>
              LET p == PlayerOf(si)
                  hand == Hands(si)[hi]
                  after == HandsAfter(si)[hi]
              IN  /\ OnlyPays(p)
                  /\ after.id = hand.id
                  /\ IF NotBust(hand) /\ ~NotBust(after)
                     THEN /\ Gain(p) = -after.bet
                          /\ index_busted' = Append(index_busted, hi)
                          /\ hi' = hi + 1
                     ELSE /\ Gain(p) = 0
                          /\ index_busted' = index_busted
                  /\ \A k \in 1..Len(index_busted) : index_busted[k] < hi
                  /\ \A j \in 1..(hi - 1) :
                        NotBust(Hands(si)[j]) <=>
                           ~(\E k \in 1..Len(index_busted) : index_busted[k] = j)
        /\ (pc \in {"double", "hit_stand"} /\ hi > Len(Hands(si))) =>
              /\ HandsAfter(si) = SelectSeq(Hands(si), NotBust)
              /\ players' = players
              /\ index_busted' = <<>>
        /\ pc \in {"spots", "splitting", "dealer_draw"} => players' = players
        /\ (pc = "settle" /\ si <= NumSpots) =>
              /\ NotBust(Hands(si)[hi])
              /\ spots' = spots
              /\ Before(si, hi, si', hi')
      ]_vars

\* C16's case: of the two halves of a split one busted on a hit, lost its
\* bet and was removed, and the other was settled and won its bet
C16_Witness ==
    /\ pc = "settle" /\ si > NumSpots /\ NumSpots = 1 /\ round_number = 1
    /\ Len(Hands(1)) = 1
    /\ Hands(1)[1].pair_decisions # <<>>
    /\ ~Hands(1)[1].is_doubled
    /\ Hands(1)[1].id = 3
    /\ Money("John") = DEFAULT_STAKE

\* C17: while the dealer draws, a card is taken exactly when the dealer's
\* total is below 17 or, with DEALER_HITS_SOFT_17 true, the hand is a soft
\* 17; with the flag false no card is taken on 17 or more, and under either
\* value none is taken on a hard total of 17 or more; when settlement
\* starts the dealer's total is at least 17 or the dealer is bust.
C17_DealerDraw ==
    [][ /\ pc = "dealer_draw" =>
              LET total == get_sum(dealer_hand)
                  soft == HoldsAce(dealer_hand) /\ AcesLow(dealer_hand) <= 11
                  draws == dealer_hand' # dealer_hand
              IN  /\ draws <=> (total < 17 \/ (hits_soft_17 /\ soft /\ total = 17))
                  /\ (~hits_soft_17 /\ total >= 17) => ~draws
                  /\ (~soft /\ total >= 17) => ~draws
                  /\ draws =>
                        /\ Len(dealer_hand') = Len(dealer_hand) + 1
                        /\ SubSeq(dealer_hand', 1, Len(dealer_hand)) = dealer_hand
                        /\ cards_dealt' = cards_dealt + 1
                        /\ pc' = "dealer_draw"
                  /\ ~draws => (pc' = "settle" /\ cards_dealt' = cards_dealt)
        /\ pc' = "settle" =>
              (get_sum(dealer_hand') >= 17 \/ is_bust(dealer_hand'))
      ]_vars

\* C17's case: with the flag false the dealer drew to a soft 17 and stood
C17_Witness ==
    /\ pc = "settle" /\ ~hits_soft_17
    /\ Len(dealer_hand) = 3
    /\ is_soft(dealer_hand) /\ get_sum(dealer_hand) = 17

\* the positions a round is left through
RoundOver == {"shoe_loop", "update_split"}

\* the positions that may follow each position of a round
Follows(p) ==
    CASE p = "shoe_loop" -> {"deal_spots"}
      [] p = "deal_spots" -> {"deal_spots", "insurance"}
      [] p = "insurance" -> {"insurance", "dealer_bj"}
      [] p = "dealer_bj" -> {"dealer_bj_spots", "player_bj"}
      [] p = "dealer_bj_spots" -> {"dealer_bj_spots"} \cup RoundOver
      [] p = "player_bj" -> {"player_bj", "spots"}
      [] p = "spots" -> {"spots", "splitting", "dealer_draw"}
      [] p = "splitting" -> {"splitting", "double"}
      [] p = "double" -> {"double", "hit_stand"}
      [] p = "hit_stand" -> {"hit_stand", "spots", "dealer_draw"}
      [] p = "dealer_draw" -> {"dealer_draw", "settle"}
      [] p = "settle" -> {"settle"} \cup RoundOver

RoundPcs == DOMAIN [p \in {"shoe_loop", "deal_spots", "insurance", "dealer_bj",
                           "dealer_bj_spots", "player_bj", "spots", "splitting",
                           "double", "hit_stand", "dealer_draw", "settle"} |-> 0]

SpotPcs == {"spots", "splitting", "double", "hit_stand"}

RECURSIVE CardsHeld(_)
CardsHeld(hands) ==
    IF hands = <<>> THEN 0 ELSE Len(Head(hands).cards) + CardsHeld(Tail(hands))

\* C18: the positions of a round follow one another in the order deal of
\* the dealer, deal of the spots in table order, insurance, dealer blackjack
\* test, player blackjacks, the spots one after the other (each through
\* splitting, doubling, hit/stand, only the spot in turn changing and
\* taking the cards dealt), dealer draw, settlement; the dealer's hand is
\* its two cards to the end of the last spot, and settlement moves money
\* only when the dealer has stopped drawing.
C18_PhaseOrder ==
    [][ (pc \in RoundPcs) =>
          /\ pc' \in Follows(pc)
          /\ pc = "shoe_loop" =>
                /\ Len(dealer_hand') = 2 /\ cards_dealt' = cards_dealt + 2
                /\ spots' = spots
                /\ \A i \in 1..NumSpots : Hands(i) = <<>>
          /\ pc = "deal_spots" =>
                /\ \A i \in 1..NumSpots :
                      Len(Hands(i)) = (IF i < si THEN 1 ELSE 0)
                /\ si <= NumSpots =>
                      (si' = si + 1 /\ Len(HandsAfter(si)) = 1 /\ pc' = pc)
                /\ pc' = "insurance" => si > NumSpots
          /\ pc \in SpotPcs =>
                /\ si' \in {si, si + 1}
                /\ si' = si + 1 =>
                      \/ pc = "spots" /\ Hands(si) = <<>>
                      \/ pc = "hit_stand" /\ hi > Len(Hands(si))
                /\ pc' = "dealer_draw" => si' > NumSpots
                /\ pc # "spots" => si <= NumSpots
                /\ \A i \in 1..NumSpots : i # si => spots'[i] = spots[i]
                /\ \A i \in 1..NumSpots :
                      i > si => /\ Len(Hands(i)) <= 1
                                /\ CardsHeld(Hands(i)) = 2 * Len(Hands(i))
                /\ si <= NumSpots =>
                      IF pc \in {"double", "hit_stand"} /\ hi > Len(Hands(si))
                      THEN cards_dealt' = cards_dealt
                      ELSE CardsHeld(HandsAfter(si)) - CardsHeld(Hands(si))
                              = cards_dealt' - cards_dealt
          /\ pc \notin {"shoe_loop", "dealer_draw"} =>
                \/ dealer_hand' = dealer_hand /\ Len(dealer_hand) >= 2
                \/ pc' \in RoundOver /\ pc \in {"dealer_bj_spots", "settle"}
          /\ pc \notin {"shoe_loop", "dealer_draw", "settle"} => Len(dealer_hand) = 2
          /\ pc \notin SpotPcs \cup {"shoe_loop", "deal_spots", "dealer_draw"} =>
                cards_dealt' = cards_dealt
          /\ pc = "dealer_draw" => (players' = players /\ spots' = spots)
          /\ pc = "settle" => get_sum(dealer_hand) >= 17
      ]_vars

\* C18's case: at the table of two spots the first spot took a third card
\* and finished, and the second spot is being asked
C18_Witness ==
    /\ NumSpots = 2 /\ si = 2 /\ pc = "double"
    /\ Len(Hands(1)) = 1 /\ Len(Hands(1)[1].cards) = 3
    /\ Len(Hands(2)) = 1 /\ Len(Hands(2)[1].cards) = 2
    /\ Len(dealer_hand) = 2

\* C19: when process_round returns, after the dealer blackjack case or
\* after settlement, every spot's hands list is empty; a round begins with
\* every spot empty, and when its deal is over every spot holds exactly one
\* hand of two cards with the player's bet amount.
C19_SpotsEmptyBetweenRounds ==
    [][ /\ (pc \in {"dealer_bj_spots", "settle"} /\ pc' \in RoundOver) =>
              /\ round_number' = round_number + 1
              /\ \A i \in 1..NumSpots : HandsAfter(i) = <<>>
        /\ pc \in RoundOver \cup {"update_double", "update_hit_stand", "sim"} =>
              /\ \A i \in 1..NumSpots : Hands(i) = <<>>
              /\ pc' = "shoe_loop" => \A i \in 1..Len(spots') : HandsAfter(i) = <<>>
        /\ (pc = "deal_spots" /\ pc' = "insurance") =>
              \A i \in 1..NumSpots :
                 /\ Len(HandsAfter(i)) = 1
                 /\ Len(HandsAfter(i)[1].cards) = 2
                 /\ HandsAfter(i)[1].bet = DEFAULT_BET
                 /\ ~HandsAfter(i)[1].is_doubled
      ]_vars

\* C19's case: the second round of a shoe has been dealt after a first round
\* that went through settlement and forwarded a decision
C19_Witness ==
    /\ round_number = 2 /\ pc = "insurance"
    /\ q.hit_stand_decisions # <<>>
    /\ \A i \in 1..NumSpots :
          Len(Hands(i)) = 1 /\ Len(Hands(i)[1].cards) = 2

\* C20: every decision made on a lineage of hands reaches the learner when
\* the lineage's final hand wins or loses: a hand that is split hands the
\* split decisions it carries on to both halves, which add the decision
\* that made them, and a hand settled with a win or a loss appends every
\* decision it carries to the learner's pending lists.
C20_LineageRecorded ==
    [][ /\ (pc = "splitting" /\ Len(HandsAfter(si)) = Len(Hands(si)) + 1) =>
              LET parent == Hands(si)[HandIndex(Hands(si), Head(stack))]
                  n == Len(HandsAfter(si))
              IN  \A j \in {n - 1, n} :
                     LET half == HandsAfter(si)[j]
                     IN  /\ IsPrefix(parent.pair_decisions, half.pair_decisions)
                         /\ Len(half.pair_decisions) = Len(parent.pair_decisions) + 1
                         /\ half.pair_decisions[Len(half.pair_decisions)].value
        /\ (pc = "settle" /\ si <= NumSpots
               /\ Payoff(Hands(si)[hi], dealer_hand) # "push") =>
              \A k \in 1..3 :
                 Len(Pending(q')[k]) =
                    Len(Pending(q)[k]) + Len(HandDecisions(Hands(si)[hi])[k])
      ]_vars

\* the two branch counts of a key in a table of totals, added
Folded(totals, key) ==
    IF key \in DOMAIN totals THEN totals[key][1] + totals[key][3] ELSE 0

\* how many of the first n entries of a pending list have the key
RECURSIVE KeyCount(_, _, _)
KeyCount(list, n, key) ==
    IF n = 0 THEN 0
    ELSE (IF list[n].key = key THEN 1 ELSE 0) + KeyCount(list, n - 1, key)

TableKeys(ql, k) == DOMAIN Totals(ql)[k] \cup {Pending(ql)[k][j].key : j \in 1..Len(Pending(ql)[k])}

\* C21: each of the three updates goes through its pending list once from
\* the front, adding one to the branch counts of the entry's key at each
\* entry and leaving the other keys alone, and then empties the list; no
\* other step changes a table of totals; so for each key the two branch
\* counts add up to the number of decisions folded for it.
C21_FoldedOnceThenDiscarded ==
    [][ /\ \A k \in 1..3 :
              IF pc = UpdatePc(k) /\ ui <= Len(Pending(q)[k])
              THEN LET d == Pending(q)[k][ui]
                   IN  /\ ui' = ui + 1 /\ pc' = pc
                       /\ Pending(q') = Pending(q)
                       /\ \A key \in TableKeys(q, k) \cup DOMAIN Totals(q')[k] :
                             Folded(Totals(q')[k], key) =
                                Folded(Totals(q)[k], key) + (IF key = d.key THEN 1 ELSE 0)
              ELSE /\ Totals(q')[k] = Totals(q)[k]
                   /\ pc = UpdatePc(k) =>
                         /\ ui = Len(Pending(q)[k]) + 1
                         /\ Pending(q')[k] = <<>>
                         /\ pc' # pc /\ ui' = 1
        /\ \A k \in 1..3 : \A key \in TableKeys(q, k) :
              (shoe_number = 1 /\ pc \in UpdatePcs \cup {"sim"}) =>
                 Folded(Totals(q)[k], key) =
                    IF pc = UpdatePc(k) THEN KeyCount(Pending(q)[k], ui - 1, key)
                    ELSE IF Pending(q)[k] = <<>> THEN Folded(Totals(q)[k], key)
                    ELSE 0
      ]_vars

\* C21's case: the three updates of the first shoe are over, nothing is
\* pending and split and double decisions have been folded
C21_Witness ==
    /\ pc = "sim" /\ shoe_number = 1
    /\ NothingPending(q)
    /\ \E key \in DOMAIN q.split_decision_totals :
          Folded(q.split_decision_totals, key) >= 2
    /\ DOMAIN q.double_decision_totals # {}

\* C22: a round is started only on a shoe whose cut_card_out is false; the
\* flag once true stays true on that shoe; a round under way with the flag
\* true goes on through its positions to its return, and the return then
\* leads to the updates and not to another round, while a return with the
\* flag false leads to the next round; from the updates no round is entered
\* before a new shoe is made.
C22_NoRoundAfterCutCard ==
    [][ /\ pc = "shoe_loop" => ~shoe.cut_card_out
        /\ (pc' = "shoe_loop" /\ pc # "shoe_loop") => ~shoe'.cut_card_out
        /\ (shoe.cut_card_out /\ shoe_number' = shoe_number) => shoe'.cut_card_out
        /\ (pc \in RoundPcs /\ shoe.cut_card_out) =>
              /\ pc' \in Follows(pc)
              /\ pc' # "shoe_loop"
              /\ pc' = "update_split" =>
                    /\ pc \in {"dealer_bj_spots", "settle"} /\ si > NumSpots
                    /\ round_number' = round_number + 1
        /\ (pc \in {"dealer_bj_spots", "settle"} /\ si > NumSpots) =>
              pc' = (IF shoe.cut_card_out THEN "update_split" ELSE "shoe_loop")
        /\ pc \in UpdatePcs =>
              /\ shoe.cut_card_out /\ shoe' = shoe
              /\ pc' \in UpdatePcs \cup {"sim"}
        /\ pc = "sim" => shoe_number' = shoe_number + 1
      ]_vars

\* C22's case: the cut card came out during the first round of the shoe,
\* the round went through settlement and clear, and the updates follow
C22_Witness ==
    /\ pc = "update_split" /\ round_number = 2 /\ shoe_number = 1
    /\ shoe.cut_card_out
    /\ cards_dealt > 5
    /\ \A i \in 1..NumSpots : Hands(i) = <<>>
    /\ q.hit_stand_decisions # <<>>

\* C23: on the shoe of six decks with the cut card at 104 and a table of at
\* most seven spots, no deal_cards call of a round asks for more cards than
\* the shoe holds, and no round ends in IndexError.
C23_ShoeNeverRunsOut ==
    (shoe.decks = 6 /\ shoe.cut_card_pos = 104 /\ NumSpots <= MAX_TABLE_SPOTS) =>
        /\ err # "IndexError"
        /\ \A number \in RequestsHere : number <= shoe.ncards

\* C24: is_bj is consulted on the dealer's two cards and on the one hand
\* of two cards each spot was dealt, before any split or hit; afterwards no
\* step pays three to two; a hand of an Ace and a ten-valued card made by a
\* split stays in its spot, is asked the double question and, unless it
\* doubled, the hit/stand question, and when it wins at settlement it wins
\* exactly its bet.
C24_BlackjackOnlyOnOriginalHands ==
    [][ /\ pc \in {"dealer_bj", "dealer_bj_spots", "player_bj"} =>
              /\ Len(dealer_hand) = 2
              /\ \A x \in AllHands :
                    /\ Len(Hands(x[1])) = 1
                    /\ Len(x[2].cards) = 2
                    /\ HandDecisions(x[2]) = <<<<>>, <<>>, <<>>>>
        /\ \A n \in PlayerNames :
              Gain(n) = BjWin(DEFAULT_BET) =>
                 /\ pc = "player_bj" /\ si <= NumSpots /\ n = PlayerOf(si)
                 /\ AceAndTen(Hands(si)[1].cards)
                 /\ HandsAfter(si) = <<>>
        /\ (pc \in {"double", "hit_stand"} /\ hi <= Len(Hands(si))
               /\ AceAndTen(Hands(si)[hi].cards)) =>
              LET hand == Hands(si)[hi]
                  after == HandsAfter(si)[hi]
              IN  /\ hand.pair_decisions # <<>>
                  /\ Gain(PlayerOf(si)) = 0
                  /\ Len(HandsAfter(si)) = Len(Hands(si))
                  /\ pc = "double" => Len(after.double_decisions) = 1
                  /\ pc = "hit_stand" =>
                        Len(after.hit_stand_decisions) = Len(hand.hit_stand_decisions) + 1
        /\ (pc \in {"double", "hit_stand"} /\ hi > Len(Hands(si))) =>
              \A j \in 1..Len(Hands(si)) :
                 AceAndTen(Hands(si)[j].cards) =>
                    \E k \in 1..Len(HandsAfter(si)) : HandsAfter(si)[k] = Hands(si)[j]
        /\ (pc = "settle" /\ si <= NumSpots /\ AceAndTen(Hands(si)[hi].cards)) =>
              /\ Hands(si)[hi].pair_decisions # <<>>
              /\ Gain(PlayerOf(si)) =
                    (CASE Payoff(Hands(si)[hi], dealer_hand) = "win" -> Hands(si)[hi].bet
                       [] Payoff(Hands(si)[hi], dealer_hand) = "lose" -> -Hands(si)[hi].bet
                       [] OTHER -> 0)
              /\ Hands(si)[hi].bet = DEFAULT_BET
      ]_vars

\* C24's case: a pair of tens was split into two hands of a ten and an Ace,
\* and each has won its bet of 100 against the dealer's 20
C24_Witness ==
    /\ pc = "settle" /\ si > NumSpots /\ NumSpots = 1 /\ round_number = 1
    /\ Len(Hands(1)) = 2
    /\ \A j \in 1..2 :
          /\ AceAndTen(Hands(1)[j].cards)
          /\ ~Hands(1)[j].is_doubled
          /\ Hands(1)[j].pair_decisions # <<>>
    /\ get_sum(dealer_hand) = 20
    /\ Money("John") = DEFAULT_STAKE + 2 * DEFAULT_BET

\* two hands hold the same values, each as often
SameComposition(a, b) ==
    Len(a) = Len(b) /\ \A v \in CardValues : Copies(a, v) = Copies(b, v)

\* the hand with the cards at positions i and j exchanged
Exchanged(cards, i, j) ==
    [k \in 1..Len(cards) |-> IF k = i THEN cards[j] ELSE IF k = j THEN cards[i] ELSE cards[k]]

\* C25: the key depends on the composition of the hand and the dealer's
\* card and on nothing else: the hand with two of its cards exchanged has
\* the same key against the same dealer card, and a hand of another
\* composition or another dealer card has another key.
C25_KeyOfComposition ==
    \A up \in CardValues :
       /\ \A i, j \in 1..Len(dealer_hand) :
             Decision_get_key(Exchanged(dealer_hand, i, j), up)
                = Decision_get_key(dealer_hand, up)
       /\ \A other \in CardValues \ {up} :
             Decision_get_key(dealer_hand, other) # Decision_get_key(dealer_hand, up)
       /\ Len(dealer_hand) <= 2 =>
             \A cards \in [1..Len(dealer_hand) -> CardValues] :
                ~SameComposition(cards, dealer_hand) =>
                   Decision_get_key(cards, up) # Decision_get_key(dealer_hand, up)

\* the keys of the hands on the table against the dealer's visible card
TableHandKeys ==
    IF Len(dealer_hand) < 2 THEN {}
    ELSE {QLearner_get_key(x[2].cards, UpCard) : x \in AllHands}

\* C26: an exploit lookup of a key leaves the key in the table with the
\* boolean it returned, a second exploit lookup returns that boolean and
\* changes nothing, and no other entry is touched; an entry of a table
\* stays from step to step and changes only when an update folds a decision
\* of its key with observations on both branches.
C26_CachedBestAction ==
    [][ \A k \in 1..3 :
          /\ \A key \in DOMAIN Values(q)[k] \cup TableHandKeys :
                /\ ExploitLookup(Values(q)[k], key) # {}
                /\ \A first \in ExploitLookup(Values(q)[k], key) :
                      /\ key \in DOMAIN first.values
                      /\ first.values[key] = first.ans
                      /\ \A second \in ExploitLookup(first.values, key) :
                            second.ans = first.ans /\ second.values = first.values
                      /\ \A other \in DOMAIN Values(q)[k] :
                            /\ other \in DOMAIN first.values
                            /\ first.values[other] = Values(q)[k][other]
          /\ \A key \in DOMAIN Values(q)[k] :
                /\ key \in DOMAIN Values(q')[k]
                /\ Values(q')[k][key] # Values(q)[k][key] =>
                      /\ pc = UpdatePc(k) /\ ui <= Len(Pending(q)[k])
                      /\ Pending(q)[k][ui].key = key
                      /\ TotalsAt(Totals(q')[k], key)[1] > 0
                      /\ TotalsAt(Totals(q')[k], key)[3] > 0
      ]_vars

\* C26's case: a key looked up during the round is still cached with its
\* boolean after the updates of the shoe, which folded a decision of that
\* key seen on one branch only
C26_Witness ==
    /\ pc = "sim" /\ shoe_number = 1
    /\ \E key \in DOMAIN q.hit_stand_decision_values :
          /\ key \in DOMAIN q.hit_stand_decision_totals
          /\ q.hit_stand_decision_totals[key][1] > 0
          /\ q.hit_stand_decision_totals[key][3] = 0
          /\ q.hit_stand_decision_values[key] = FALSE

\* C27: play_entire_shoe comes to its end on a shoe that does not run out,
\* whatever the policy answers, and every round that has dealt comes to its
\* end.  The measures behind it: a spot never holds more than MAX_RESPLIT
\* hands and a split is taken only below that number, adding one hand; a
\* hit is taken only by a hand whose all-Aces-low sum is at most 21 and
\* raises that sum by at least 1; the dealer draws only at a total of at
\* most 17, each draw raising the all-Aces-low sum, and stops drawing only
\* at 17 or more; a round starts only while the cut card is not out and
\* takes two cards at its start, the shoe never grows, and the cut card is
\* out once the shoe is down to its position.
C27_EveryRoundTerminates ==
    /\ [][ /\ \A i \in 1..Len(spots) : Len(Hands(i)) <= MAX_RESPLIT
           /\ (pc = "splitting" /\ cards_dealt' # cards_dealt) =>
                 /\ Len(Hands(si)) < MAX_RESPLIT
                 /\ Len(HandsAfter(si)) = Len(Hands(si)) + 1
                 /\ Len(stack') <= Len(stack) + 1
           /\ (pc = "hit_stand" /\ cards_dealt' # cards_dealt) =>
                 /\ AcesLow(Hands(si)[hi].cards) <= 21
                 /\ AcesLow(HandsAfter(si)[hi].cards)
                        >= AcesLow(Hands(si)[hi].cards) + 1
           /\ (pc = "dealer_draw" /\ cards_dealt' # cards_dealt) =>
                 /\ get_sum(dealer_hand) <= 17
                 /\ pc' = "dealer_draw"
                 /\ AcesLow(dealer_hand') >= AcesLow(dealer_hand) + 1
           /\ (pc = "dealer_draw" /\ pc' # "dealer_draw") =>
                 get_sum(dealer_hand) >= 17
           /\ pc = "shoe_loop" =>
                 /\ ~shoe.cut_card_out
                 /\ shoe'.ncards = shoe.ncards - 2
           /\ shoe'.ncards <= shoe.ncards
           /\ shoe.ncards <= shoe.cut_card_pos => shoe.cut_card_out
           /\ round_number' \in {round_number, round_number + 1}
         ]_vars
    /\ (pc = "deal_spots") ~> (pc \in RoundOver)
    /\ <>(pc = "sim")

\* C27's case: the shoe has been played to its end in two rounds, the
\* second with the spot split up to the ceiling, and the updates are done
C27_Witness ==
    /\ pc = "sim" /\ round_number = 3 /\ shoe.cut_card_out
    /\ cards_dealt >= 1 + 5 + 4 + 2 * (MAX_RESPLIT - 1)
    /\ err = "none"

\* the cards of the hands of a list, hand after hand
RECURSIVE HandCards(_)
HandCards(hands) ==
    IF hands = <<>> THEN <<>> ELSE Head(hands).cards \o HandCards(Tail(hands))

RECURSIVE SpotCards(_)
SpotCards(ss) ==
    IF ss = <<>> THEN <<>> ELSE HandCards(Head(ss).hands) \o SpotCards(Tail(ss))

\* the cards that lie on the table
TableCards(d, ss) == d \o SpotCards(ss)

\* the cards that have left the shoe, first dealt first
DealtSoFar == SubSeq(OneSpotShoe, 1, cards_dealt)

\* C28: in every state the shoe holds the cards of the shuffled shoe from
\* the first one not dealt on, in their order, dealt and remaining cards
\* being the 52 * SIM_DECKS cards of the decks, and the cards on the table
\* are among the dealt ones; a step that deals puts exactly the front cards
\* of the shoe on the table, a step that does not deal puts none there; a
\* split replaces the parent hand by two hands of one parent card and one
\* of the two front cards each, and leaves the other hands alone.
C28_CardsConserved ==
    [][ /\ arranged = SubSeq(OneSpotShoe, cards_dealt + 1, Len(OneSpotShoe))
        /\ shoe.ncards = Len(arranged)
        /\ cards_dealt + shoe.ncards = CARDS_PER_DECK * shoe.decks
        /\ \A v \in CardValues :
              /\ Copies(DealtSoFar, v) + Copies(arranged, v) = 4 * shoe.decks
              /\ Copies(TableCards(dealer_hand, spots), v)
                    <= Copies(Tail(DealtSoFar), v)
              /\ LET number == cards_dealt' - cards_dealt
                 IN  /\ number \in 0..2
                     /\ arranged' = SubSeq(arranged, number + 1, Len(arranged))
                     /\ IF number > 0
                        THEN Copies(TableCards(dealer_hand', spots'), v)
                               = Copies(TableCards(dealer_hand, spots), v)
                                 + Copies(SubSeq(arranged, 1, number), v)
                        ELSE Copies(TableCards(dealer_hand', spots'), v)
                               <= Copies(TableCards(dealer_hand, spots), v)
        /\ (pc = "splitting" /\ cards_dealt' # cards_dealt) =>
              LET hands == Hands(si)
                  at == HandIndex(hands, Head(stack))
                  after == HandsAfter(si)
                  n == Len(hands)
              IN  /\ Len(after) = n + 1
                  /\ after[n].cards = <<hands[at].cards[1], arranged[1]>>
                  /\ after[n + 1].cards = <<hands[at].cards[2], arranged[2]>>
                  /\ SubSeq(after, 1, n - 1) = RemoveAt(hands, at)
                  /\ dealer_hand' = dealer_hand
      ]_vars

\* C28's case: the spot was split up to MAX_RESPLIT hands, and the round
\* before has been cleared off the table
C28_Witness ==
    /\ round_number = 2 /\ pc = "double"
    /\ Len(Hands(1)) = MAX_RESPLIT
    /\ Len(TableCards(dealer_hand, spots)) = 2 + 2 * MAX_RESPLIT
    /\ cards_dealt = 6 + 2 + 2 * MAX_RESPLIT

Last(list) == list[Len(list)]

\* the keys a step adds to the decision values of table k
NewKeys(k) == DOMAIN Values(q')[k] \ DOMAIN Values(q)[k]

\* C29: the decision a split, double or hit/stand question records on a
\* hand carries the key QLearner.__get_key gives for the cards the hand
\* held when it was asked and the dealer's up-card, and the size of that
\* hand; the only entry the question can add to its table of decision
\* values is the entry of that key, and the other two tables keep their
\* keys; a fold changes the totals at the key of the folded decision and
\* leaves every other entry of totals and values as it was.
C29_RecordedKeyIsLookupKey ==
    [][ /\ (pc = "splitting" /\ stack # <<>>) =>
              LET hands == Hands(si)
                  hand == hands[HandIndex(hands, Head(stack))]
                  key == QLearner_get_key(hand.cards, UpCard)
                  after == HandsAfter(si)
              IN  MaySplit(hand, hands) =>
                     /\ NewKeys(1) \subseteq {key}
                     /\ NewKeys(2) = {} /\ NewKeys(3) = {}
                     /\ \E i \in 1..Len(after) :
                           /\ after[i].id \in {hand.id} \cup
                                 {2 * Len(hands), 2 * Len(hands) + 1}
                           /\ after[i].pair_decisions # <<>>
                     /\ \A i \in 1..Len(after) :
                           (after[i].id \notin {hands[j].id : j \in 1..Len(hands)}
                            \/ after[i].id = hand.id) =>
                              /\ after[i].pair_decisions # <<>>
                              /\ Last(after[i].pair_decisions).key = key
                              /\ Last(after[i].pair_decisions).size = Len(hand.cards)
        /\ (pc = "double" /\ hi <= Len(Hands(si))) =>
              LET hand == Hands(si)[hi]
                  key == QLearner_get_key(hand.cards, UpCard)
                  after == HandsAfter(si)[hi]
              IN  /\ NewKeys(2) \subseteq {key}
                  /\ NewKeys(1) = {} /\ NewKeys(3) = {}
                  /\ Len(after.double_decisions) = Len(hand.double_decisions) + 1
                  /\ Last(after.double_decisions).key = key
                  /\ Last(after.double_decisions).size = Len(hand.cards)
        /\ (pc = "hit_stand" /\ hi <= Len(Hands(si))) =>
              LET hand == Hands(si)[hi]
                  key == QLearner_get_key(hand.cards, UpCard)
                  after == HandsAfter(si)[hi]
              IN  (~hand.is_doubled /\ ~is_bust(hand.cards)) =>
                     /\ NewKeys(3) \subseteq {key}
                     /\ NewKeys(1) = {} /\ NewKeys(2) = {}
                     /\ Len(after.hit_stand_decisions)
                           = Len(hand.hit_stand_decisions) + 1
                     /\ Last(after.hit_stand_decisions).key = key
                     /\ Last(after.hit_stand_decisions).size = Len(hand.cards)
        /\ \A k \in 1..3 :
              (pc = UpdatePc(k) /\ ui <= Len(Pending(q)[k])) =>
                 LET key == Pending(q)[k][ui].key
                 IN  /\ key \in DOMAIN Totals(q')[k]
                     /\ Totals(q')[k][key] # TotalsAt(Totals(q)[k], key)
                     /\ \A other \in DOMAIN Totals(q')[k] \ {key} :
                           /\ other \in DOMAIN Totals(q)[k]
                           /\ Totals(q')[k][other] = Totals(q)[k][other]
                     /\ \A other \in DOMAIN Values(q')[k] \ {key} :
                           /\ other \in DOMAIN Values(q)[k]
                           /\ Values(q')[k][other] = Values(q)[k][other]
      ]_vars

\* C29's case: a split question stored a value under the key it looked up,
\* and the update of the split table has folded decisions of that key, all
\* of them splits, which leaves the stored value alone
C29_Witness ==
    /\ pc = "update_double" /\ shoe_number = 1
    /\ \E key \in DOMAIN q.split_decision_values :
          /\ key \in DOMAIN q.split_decision_totals
          /\ q.split_decision_totals[key][1] > 0
          /\ q.split_decision_totals[key][3] = 0

====
